---- MODULE Spec2Model ----
(***************************************************************************)
(* A model of the nyx-memory engagement store: the durable file            *)
(* primitives (storage/engine), the state and index files                  *)
(* (storage/index), the engagement record manager (tools/engagement) and   *)
(* the sub-entity tools (hosts, findings, credentials, command log).       *)
(*                                                                         *)
(* Strings whose characters matter (targets, slugs, engagement ids,        *)
(* F-NNN ids) are sequences of one-character strings.  An optional         *)
(* parameter is <<>> when the caller omitted it and <<v>> when the caller  *)
(* supplied v.  Timestamps are readings of a logical clock.                *)
(***************************************************************************)
EXTENDS Integers, Sequences, FiniteSets, TLC

\* ------------------------------------------------------------------ bounds
MaxClock == 4
TicksPerDay == 3
MaxEngagements == 2
MaxFindings == 2
MaxCredentials == 2
MaxCommands == 2
MaxFaults == 1
HostCalls == 3
EngCalls == 4
EngCap == 3
Chunks == 2
TickMs == 5000
MaxTodos == 2
GateCalls == 5
SaveCalls == 3
RaceCalls == 1
IdCalls == 5
ResumeCalls == 7
FindingCalls == 4
SectionCalls == 5
EvidenceCalls == 4
MaxSteps == 3
NarrativeCalls == 5

VARIABLES
  detail,     \* engagement id -> the record in <id>/metadata.json
  index,      \* index.json: a sequence of IndexEntry
  active,     \* state.json: <<>> (absent or null) or <<id>>
  report,     \* engagement id -> the content of <id>/FINDINGS.md
  hostFile,   \* <<engagement id, ip>> -> the content of <id>/hosts/<ip>.md
  evidenceFile, \* <<engagement id, filename>> -> the content of
              \* <id>/evidence/<filename>
  clock,      \* the wall clock read by now(): one tick passes with every call
  last,       \* the last call made by the client and how it ended
  issued,     \* engagement id -> the ids returned by the successful addFinding
              \* calls on the record last created under that id
  faults,     \* the number of calls cut short by an I/O error so far
  dir,        \* the directory of one file: path -> inode number
  inode,      \* inode number -> the content of the inode, a sequence of chunks
  writer,     \* concurrent call of writeJSON / writeFileAtomic -> its position
  lock,       \* the lock on .nyx.lock: <<>> when free, or its holder and age
  proc,       \* process -> its call of updateIndexEntry / removeIndexEntry
  task        \* server process -> the tool call it is running, step by step

storeVars == <<detail, index, active, report, hostFile, evidenceFile, clock, last, issued, faults>>
fsVars == <<dir, inode, writer>>
lockVars == <<lock, proc, task>>
vars == <<detail, index, active, report, hostFile, evidenceFile, clock, last,
          issued, faults,
          dir, inode, writer, lock, proc, task>>

\* ------------------------------------------------------- optional values
None == <<>>
Some(x) == <<x>>

\* JavaScript truthiness of an optional string: undefined and "" are falsy.
Truthy(v) == v # <<>> /\ v[1] # ""

\* The same for an optional text kept as a sequence of characters.
TruthyText(v) == v # <<>> /\ v[1] # <<>>

\* v || d for an optional string v.
OrDefault(v, d) == IF Truthy(v) THEN v[1] ELSE d

\* ------------------------------------------------------------ characters
DigitChars == <<"0", "1", "2", "3", "4", "5", "6", "7", "8", "9">>
DigitSet == {DigitChars[i] : i \in 1..10}
LowerSet == {"a", "b", "c"}

DigitVal(c) == (CHOOSE i \in 1..10 : DigitChars[i] = c) - 1

RECURSIVE ToDigits(_)
\* String(n) for a natural number n.
ToDigits(n) ==
  IF n < 10 THEN <<DigitChars[n + 1]>>
  ELSE ToDigits(n \div 10) \o <<DigitChars[(n % 10) + 1]>>

RECURSIVE PadStart(_, _, _)
\* s.padStart(width, c)
PadStart(s, width, c) ==
  IF Len(s) >= width THEN s ELSE PadStart(<<c>> \o s, width, c)

RECURSIVE ParseDigits(_, _)
ParseDigits(s, acc) ==
  IF s = <<>> \/ Head(s) \notin DigitSet THEN acc
  ELSE ParseDigits(Tail(s), 10 * acc + DigitVal(Head(s)))

\* parseInt(s, 10) for a string with no sign: the value of the leading
\* digits, NaN (here -1, which compares below every maximum as NaN does
\* not compare above it) when there is none.
ParseInt(s) ==
  IF s = <<>> \/ Head(s) \notin DigitSet THEN -1 ELSE ParseDigits(s, 0)

\* s.replace(prefix, ""): the first occurrence of prefix removed; every id
\* the program writes starts with its prefix.
StripPrefix(s, prefix) ==
  IF Len(s) >= Len(prefix) /\ SubSeq(s, 1, Len(prefix)) = prefix
  THEN SubSeq(s, Len(prefix) + 1, Len(s))
  ELSE s

\* c.toLowerCase()
Lower(c) ==
  CASE c = "A" -> "a"
    [] c = "B" -> "b"
    [] c = "C" -> "c"
    [] OTHER -> c

IsSlugChar(c) == c \in LowerSet \cup DigitSet

RECURSIVE CollapseRuns(_, _)
\* .replace(/[^a-z0-9]+/g, "-"): inRun says the previous character was
\* part of a run that has already produced its hyphen.
CollapseRuns(s, inRun) ==
  IF s = <<>> THEN <<>>
  ELSE IF IsSlugChar(Head(s)) THEN <<Head(s)>> \o CollapseRuns(Tail(s), FALSE)
  ELSE IF inRun THEN CollapseRuns(Tail(s), TRUE)
  ELSE <<"-">> \o CollapseRuns(Tail(s), TRUE)

\* .replace(/^-|-$/g, "")
StripEdgeHyphens(s) ==
  LET a == IF s # <<>> /\ Head(s) = "-" THEN Tail(s) ELSE s
  IN  IF a # <<>> /\ a[Len(a)] = "-" THEN SubSeq(a, 1, Len(a) - 1) ELSE a

SlugMax == 40

\* .slice(0, n)
Slice(s, n) == IF Len(s) <= n THEN s ELSE SubSeq(s, 1, n)

LowerAll(s) == [i \in 1..Len(s) |-> Lower(s[i])]

slugify(text) ==
  Slice(StripEdgeHyphens(CollapseRuns(LowerAll(text), FALSE)), SlugMax)

\* new Date().toISOString().slice(0, 10): the calendar day of a clock
\* reading, one opaque token of fixed width.
DateOf(t) == <<"day" \o ToString(t \div TicksPerDay)>>

\* now()
now == clock

\* ----------------------------------------------------------- id scheme
\* `${prefix}${String(n).padStart(3, "0")}`
FormatId(prefix, n) == prefix \o PadStart(ToDigits(n), 3, "0")

\* A scan that looks at no entry.
NoSuffix(existing, prefix, max) == max

RECURSIVE MaxSuffix(_, _, _)
\* The loop of nextFindingId / nextCredId / nextCmdId / nextTodoId.
MaxSuffix(existing, prefix, max) ==
  IF existing = <<>> THEN max
  ELSE LET n == ParseInt(StripPrefix(Head(existing).id, prefix))
       IN  MaxSuffix(Tail(existing), prefix, IF n > max THEN n ELSE max)

FPrefix == <<"F", "-">>
CPrefix == <<"C", "-">>
CmdPrefix == <<"C", "M", "D", "-">>

nextFindingId(existing) == FormatId(FPrefix, MaxSuffix(existing, FPrefix, 0) + 1)
nextCredId(existing) == FormatId(CPrefix, MaxSuffix(existing, CPrefix, 0) + 1)
nextCmdId(existing) == FormatId(CmdPrefix, MaxSuffix(existing, CmdPrefix, 0) + 1)

TPrefix == <<"T", "-">>

nextTodoId(existing) == FormatId(TPrefix, MaxSuffix(existing, TPrefix, 0) + 1)

\* --------------------------------------------------------------- records
makeEmptyMetadata(id, target, scope, roe) ==
  [ id |-> id, target |-> target, scope |-> scope,
    rules_of_engagement |-> roe, status |-> "active",
    created_at |-> now, updated_at |-> now,
    executive_summary |-> "", attack_path |-> <<>>, findings |-> <<>>,
    hosts |-> <<>>, credentials |-> <<>>, dead_ends |-> <<>>,
    todos |-> <<>>, evidence_index |-> <<>>, command_log |-> <<>>,
    schema_version |-> 1 ]

buildIndexEntry(meta) ==
  [ id |-> meta.id, target |-> meta.target, status |-> meta.status,
    created_at |-> meta.created_at, updated_at |-> meta.updated_at,
    finding_count |-> Len(meta.findings),
    host_count |-> Len(meta.hosts),
    credential_count |-> Len(meta.credentials),
    command_count |-> Len(meta.command_log) ]

\* The report is a function of the whole record except schema_version.
renderFindings(meta) ==
  [ f \in (DOMAIN meta) \ {"schema_version"} |-> meta[f] ]

\* value || "-" in a cell of the services table.
OrDash(v) == IF v # "" THEN v ELSE "-"

\* section(title, content): the content, or a placeholder when it is empty.
section(content) == IF content # "" THEN content ELSE "*Nothing recorded yet.*"

\* The host file: the title with the hostname when there is one, the OS
\* line when there is one, the two timestamps, one table row per service
\* and the six sections.
renderHost(host) ==
  [ title |-> IF host.hostname # "" THEN <<host.ip, host.hostname>> ELSE <<host.ip>>,
    os |-> IF host.os # "" THEN <<host.os>> ELSE <<>>,
    first_seen |-> host.first_seen,
    updated |-> host.updated_at,
    services |-> [ i \in 1..Len(host.services) |->
                     [ port |-> host.services[i].port,
                       proto |-> host.services[i].proto,
                       service |-> host.services[i].service,
                       version |-> OrDash(host.services[i].version),
                       notes |-> OrDash(host.services[i].notes) ] ],
    sections |-> << section(host.enumeration), section(host.vulnerabilities),
                    section(host.exploitation), section(host.post_exploitation),
                    section(host.credentials), section(host.key_commands) >> ]

\* ------------------------------------------------------ storage / index
\* index.findIndex((e) => e.id === id), 0 when there is none.
FindIndexOf(idx, id) ==
  IF \E i \in 1..Len(idx) : idx[i].id = id
  THEN CHOOSE i \in 1..Len(idx) :
         idx[i].id = id /\ \A j \in 1..(i - 1) : idx[j].id # id
  ELSE 0

\* index.some((e) => e.id === id)
InIndex(idx, id) == \E i \in 1..Len(idx) : idx[i].id = id

\* An upsert that never looks for the entry it replaces.
AppendEntry(idx, entry) == Append(idx, entry)

\* An upsert that drops the old entry and pushes the new one at the end.
MoveToEnd(idx, entry) ==
  Append(SelectSeq(idx, LAMBDA e : e.id # entry.id), entry)

\* The critical section of updateIndexEntry.
UpsertEntry(idx, entry) ==
  LET existing == FindIndexOf(idx, entry.id)
  IN  IF existing > 0 THEN [idx EXCEPT ![existing] = entry]
      ELSE Append(idx, entry)

\* The critical section of removeIndexEntry.
FilterEntry(idx, id) == SelectSeq(idx, LAMBDA e : e.id # id)

\* A write that keeps the findings and the credentials the file holds and
\* the record to write lacks.
MergeDetail(d, meta) ==
  LET Missing(old, new) ==
        SelectSeq(old, LAMBDA x : \A i \in 1..Len(new) : new[i] # x)
  IN  [ i \in (DOMAIN d) \cup {meta.id} |->
          IF i # meta.id THEN d[i]
          ELSE IF i \notin DOMAIN d THEN meta
          ELSE [meta EXCEPT
                  !.findings = Missing(d[i].findings, meta.findings) \o @,
                  !.credentials = Missing(d[i].credentials, meta.credentials) \o @] ]

\* writeJSON(getMetadataPath(meta.id), meta)
WriteDetail(d, meta) ==
  [ i \in (DOMAIN d) \cup {meta.id} |-> IF i = meta.id THEN meta ELSE d[i] ]

\* writeFileAtomic(path, content) on a family of files keyed by k.
WriteFile(files, k, content) ==
  [ i \in (DOMAIN files) \cup {k} |-> IF i = k THEN content ELSE files[i] ]

\* ------------------------------------------------- atomic file writes
\* writeJSON and writeFileAtomic run the same steps on a path: they write
\* the whole content to the temp path `${filePath}.tmp.${process.pid}` with
\* fs.writeFile and rename the temp path onto the path.  fs.writeFile opens
\* its path with the flag "w", which creates the file or truncates the one
\* the path names, and writes the content through its own descriptor, in one
\* write or more.  The calls below all write the same path; between two
\* awaited file operations of one call any other call may run.
\* A path is the sequence of its dot-separated parts.
Target == <<"metadata.json">>

\* The calls in flight: two in one server process, one in another process.
Writers == {"w1", "w2", "w3"}

\* process.pid of the process a call runs in.
Pid(w) == IF w = "w3" THEN "pid2" ELSE "pid1"

\* `${filePath}.tmp.${process.pid}`
tmpPath(w) == Target \o <<"tmp", Pid(w)>>

\* The content a call writes: Chunks pieces, none shared with another call.
Content(w) == [k \in 1..Chunks |-> <<w, k>>]

\* The complete content the path held before any of the calls.
Earlier == <<"earlier">>

\* A write of one piece at offset k - 1 through a descriptor: the bytes
\* between the end of the file and the offset, if any, read as zeros.
WriteAt(content, k, piece) ==
  [i \in 1..(IF k > Len(content) THEN k ELSE Len(content)) |->
     IF i = k THEN piece
     ELSE IF i <= Len(content) THEN content[i] ELSE <<"zeros", i>>]

Idle == [pc |-> "open", fd |-> 0, pos |-> 0]

\* fs.writeFile(tmpPath, ...) opens the temp path: O_CREAT | O_TRUNC.
writeFileOpen(w) ==
  /\ writer[w].pc = "open"
  /\ IF tmpPath(w) \in DOMAIN dir
     THEN /\ inode' = [inode EXCEPT ![dir[tmpPath(w)]] = <<>>]
          /\ dir' = dir
          /\ writer' = [writer EXCEPT ![w] = [pc |-> "write", fd |-> dir[tmpPath(w)], pos |-> 0]]
     ELSE /\ inode' = Append(inode, <<>>)
          /\ dir' = [q \in (DOMAIN dir) \cup {tmpPath(w)} |->
                       IF q = tmpPath(w) THEN Len(inode) + 1 ELSE dir[q]]
          /\ writer' = [writer EXCEPT ![w] = [pc |-> "write", fd |-> Len(inode) + 1, pos |-> 0]]
  /\ UNCHANGED <<storeVars, lockVars>>

\* fs.writeFile writes its next piece; after the last one it closes the
\* descriptor, which changes nothing a reader sees.
writeFileWrite(w) ==
  /\ writer[w].pc = "write"
  /\ LET k == writer[w].pos + 1
     IN  /\ inode' = [inode EXCEPT ![writer[w].fd] = WriteAt(@, k, Content(w)[k])]
         /\ writer' = [writer EXCEPT ![w].pos = k,
                                     ![w].pc = IF k = Chunks THEN "rename" ELSE "write"]
  /\ UNCHANGED <<dir>> /\ UNCHANGED <<storeVars, lockVars>>

\* fs.rename(tmpPath, filePath): ENOENT when the temp path names nothing.
rename(w) ==
  /\ writer[w].pc = "rename"
  /\ IF tmpPath(w) \in DOMAIN dir
     THEN /\ dir' = [q \in ((DOMAIN dir) \ {tmpPath(w)}) \cup {Target} |->
                       IF q = Target THEN dir[tmpPath(w)] ELSE dir[q]]
          /\ writer' = [writer EXCEPT ![w].pc = "done"]
     ELSE /\ dir' = dir
          /\ writer' = [writer EXCEPT ![w].pc = "ENOENT"]
  /\ UNCHANGED <<inode>> /\ UNCHANGED <<storeVars, lockVars>>

\* The processes the calls run in.
Processes == {Pid(w) : w \in Writers}

\* The process p dies: each of its calls that has not finished stops where
\* it is; the files stay as they are.
crash(p) ==
  /\ \E w \in Writers : Pid(w) = p /\ writer[w].pc \in {"open", "write", "rename"}
  /\ writer' = [w \in Writers |->
                  IF Pid(w) = p /\ writer[w].pc \in {"open", "write", "rename"}
                  THEN [writer[w] EXCEPT !.pc = "crashed"]
                  ELSE writer[w]]
  /\ UNCHANGED <<dir, inode>> /\ UNCHANGED <<storeVars, lockVars>>

\* What fs.readFile throws when the path names nothing.
ENOENT == <<"ENOENT">>

\* What a reader of the path gets from fs.readFile.
readFile == IF Target \in DOMAIN dir THEN inode[dir[Target]] ELSE ENOENT

\* ------------------------------------------------------------ failures
\* An order in which the index is upserted before the detail record is
\* written.
IndexBeforeDetail(f) ==
  CASE f = "evidence" -> 0
    [] f = "index" -> 1
    [] f = "detail" -> 2
    [] f = "state" -> 3
    [] f = "render" -> 4
    [] f = "hostfile" -> 5
    [] f = "none" -> 6

\* An order in which the report is rendered before the index is upserted.
RenderBeforeIndex(f) ==
  CASE f = "evidence" -> 0
    [] f = "detail" -> 1
    [] f = "render" -> 2
    [] f = "state" -> 3
    [] f = "index" -> 4
    [] f = "hostfile" -> 5
    [] f = "none" -> 6

\* A call may be cut short by an I/O error at one of its file operations:
\* the detail-record write, the index upsert (the acquisition of the lock
\* or the rewrite), the state write, the report render, a host-file render.
\* StepOf orders them as every handler performs them.
StepOf(f) ==
  CASE f = "evidence" -> 0
    [] f = "detail" -> 1
    [] f = "index" -> 2
    [] f = "state" -> 3
    [] f = "render" -> 4
    [] f = "hostfile" -> 5
    [] f = "none" -> 6

\* The step `step` took effect in a call that failed at `fail`.
Done(fail, step) == StepOf(fail) > StepOf(step)

SaveFailures == {"none", "detail", "index", "render"}

\* ------------------------------------------------- engagement manager
\* A collision loop that never iterates.
FirstSuffix(idx, id, suffix) == suffix

RECURSIVE NextSuffix(_, _, _)
\* while (index.some((e) => e.id === `${id}-${suffix}`)) suffix++
NextSuffix(idx, id, suffix) ==
  IF InIndex(idx, id \o <<"-">> \o ToDigits(suffix))
  THEN NextSuffix(idx, id, suffix + 1)
  ELSE suffix

\* The id createEngagement settles on for a candidate id.
ResolveId(idx, id) ==
  IF InIndex(idx, id)
  THEN id \o <<"-">> \o ToDigits(NextSuffix(idx, id, 2))
  ELSE id

CandidateId(target) == DateOf(clock) \o <<"-">> \o slugify(target)

NoCall == [op |-> "none", ok |-> TRUE, err |-> "", eng |-> <<>>]

Call(op, fail, eng) ==
  [op |-> op, ok |-> fail = "none", err |-> IF fail = "none" THEN "" ELSE fail,
   eng |-> eng]

Failed(op, code, eng) == [op |-> op, ok |-> FALSE, err |-> code, eng |-> eng]

IssuedOf(id) == IF id \in DOMAIN issued THEN issued[id] ELSE <<>>

createEngagement(target, scope, roe, fail) ==
  LET id == ResolveId(index, CandidateId(target))
      meta == makeEmptyMetadata(id, target, scope, OrDefault(roe, ""))
  IN  /\ detail' = IF Done(fail, "detail") THEN WriteDetail(detail, meta) ELSE detail
      /\ index' = IF Done(fail, "index")
                  THEN UpsertEntry(index, buildIndexEntry(meta)) ELSE index
      /\ active' = IF Done(fail, "state") THEN Some(id) ELSE active
      /\ report' = IF Done(fail, "render")
                   THEN WriteFile(report, id, renderFindings(meta)) ELSE report
      /\ last' = Call("createEngagement", fail, id)
      /\ issued' = IF Done(fail, "detail") THEN WriteFile(issued, id, <<>>) ELSE issued
      /\ UNCHANGED <<hostFile, evidenceFile>> /\ clock' = clock + 1

\* A count that takes every todo for a pending one.
AllTodos(meta) == Len(meta.todos)

\* meta.todos.filter((t) => t.status === "pending").length
PendingTodos(meta) ==
  LET IsPending(t) == t.status = "pending"
  IN  Len(SelectSeq(meta.todos, IsPending))

\* An access check that finds every path.
AnyRecord(id) == TRUE

\* await fs.access(getMetadataPath(id)) succeeds.
HasRecord(id) == id \in DOMAIN detail

\* `was` is the active id the call found.  Were the record unreadable
\* after the access check, readJSON would return null and the count of the
\* todos would throw after the active id had been set.
resumeEngagement(id) ==
  /\ IF ~HasRecord(id)
     THEN /\ active' = active
          /\ last' = Failed("resumeEngagement", "engagement_not_found", id)
     ELSE IF id \notin DOMAIN detail
     THEN /\ active' = Some(id)
          /\ last' = Failed("resumeEngagement", "TypeError", id)
     ELSE /\ active' = Some(id)
          /\ last' = [ op |-> "resumeEngagement", ok |-> TRUE, err |-> "",
                       eng |-> id, was |-> active,
                       open_todos |-> PendingTodos(detail[id]) ]
  /\ UNCHANGED <<detail, index, report, hostFile, evidenceFile, issued>> /\ clock' = clock + 1

\* The host files closeEngagement renders, one per host of the record.
RenderHosts(files, meta) ==
  [ k \in (DOMAIN files) \cup {<<meta.id, meta.hosts[i].ip>> : i \in 1..Len(meta.hosts)} |->
      IF \E i \in 1..Len(meta.hosts) : k = <<meta.id, meta.hosts[i].ip>>
      THEN LET i == CHOOSE j \in 1..Len(meta.hosts) :
                      /\ k = <<meta.id, meta.hosts[j].ip>>
                      /\ \A m \in (j + 1)..Len(meta.hosts) : meta.hosts[m].ip # meta.hosts[j].ip
           IN  renderHost(meta.hosts[i])
      ELSE files[k] ]

closeEngagement(status, summary, fail) ==
  IF active = <<>>
  THEN /\ last' = Failed("closeEngagement", "no_active_engagement", <<>>)
       /\ UNCHANGED <<detail, index, active, report, hostFile, evidenceFile, issued>> /\ clock' = clock + 1
  ELSE IF active[1] \notin DOMAIN detail
  THEN /\ last' = Failed("closeEngagement", "TypeError", active[1])
       /\ UNCHANGED <<detail, index, active, report, hostFile, evidenceFile, issued>> /\ clock' = clock + 1
  ELSE
    LET id == active[1]
        old == detail[id]
        meta == [old EXCEPT !.status = OrDefault(status, "completed"),
                            !.updated_at = now,
                            !.executive_summary =
                               IF Truthy(summary) THEN summary[1] ELSE @]
    IN  /\ detail' = IF Done(fail, "detail") THEN WriteDetail(detail, meta) ELSE detail
        /\ index' = IF Done(fail, "index")
                    THEN UpsertEntry(index, buildIndexEntry(meta)) ELSE index
        /\ active' = IF Done(fail, "state") THEN None ELSE active
        /\ report' = IF Done(fail, "render")
                     THEN WriteFile(report, id, renderFindings(meta)) ELSE report
        /\ hostFile' = IF Done(fail, "hostfile")
                       THEN RenderHosts(hostFile, meta) ELSE hostFile
        /\ last' = [ op |-> "closeEngagement", ok |-> fail = "none",
                     err |-> IF fail = "none" THEN "" ELSE fail,
                     eng |-> id, status |-> status ]
        /\ UNCHANGED <<evidenceFile, issued>> /\ clock' = clock + 1

removeIndexEntry(id, fail) ==
  /\ index' = IF Done(fail, "index") THEN FilterEntry(index, id) ELSE index
  /\ last' = Call("removeIndexEntry", fail, id)
  /\ UNCHANGED <<detail, active, report, hostFile, evidenceFile, issued>> /\ clock' = clock + 1

\* A save that marks every record it writes as active.
saveReactivating(meta0, fail) ==
  LET meta == [meta0 EXCEPT !.updated_at = now, !.status = "active"]
  IN  [ detail |-> IF Done(fail, "detail") THEN WriteDetail(detail, meta) ELSE detail,
        index |-> IF Done(fail, "index")
                  THEN UpsertEntry(index, buildIndexEntry(meta)) ELSE index,
        report |-> IF Done(fail, "render")
                   THEN WriteFile(report, meta.id, renderFindings(meta)) ELSE report ]

\* A save that renders the record as it was loaded.
saveRenderingLoaded(meta0, fail) ==
  LET meta == [meta0 EXCEPT !.updated_at = now]
  IN  [ detail |-> IF Done(fail, "detail") THEN WriteDetail(detail, meta) ELSE detail,
        index |-> IF Done(fail, "index")
                  THEN UpsertEntry(index, buildIndexEntry(meta)) ELSE index,
        report |-> IF Done(fail, "render")
                   THEN WriteFile(report, meta.id, renderFindings(meta0)) ELSE report ]

\* saveMetadataAndRender(meta), cut short at `fail`: what it leaves on disk.
saveMetadataAndRender(meta0, fail) ==
  LET meta == [meta0 EXCEPT !.updated_at = now]
  IN  [ detail |-> IF Done(fail, "detail") THEN WriteDetail(detail, meta) ELSE detail,
        index |-> IF Done(fail, "index")
                  THEN UpsertEntry(index, buildIndexEntry(meta)) ELSE index,
        report |-> IF Done(fail, "render")
                   THEN WriteFile(report, meta.id, renderFindings(meta)) ELSE report ]

\* ------------------------------------------------------- sub-entity tools
\* A tool that loadActiveMetadata stops: no active engagement, or an active
\* id whose metadata.json is absent (readJSON returns null and the tool
\* dereferences it).
LoadError == IF active = <<>> THEN "no_active_engagement" ELSE "TypeError"

CanLoad == active # <<>> /\ active[1] \in DOMAIN detail

\* A refusal that comes after the loaded record was stamped and written.
RejectedLate(call) ==
  /\ last' = call
  /\ detail' = IF CanLoad
               THEN WriteDetail(detail, [detail[active[1]] EXCEPT !.updated_at = now])
               ELSE detail
  /\ UNCHANGED <<index, active, report, hostFile, evidenceFile, issued>>
  /\ clock' = clock + 1

\* A call that threw before it wrote anything; `call` is what it returned.
RejectedAs(call) ==
  /\ last' = call
  /\ UNCHANGED <<detail, index, active, report, hostFile, evidenceFile, issued>>
  /\ clock' = clock + 1

\* The record of a call refused with `code`.
Refusal(op, code, params) ==
  [ op |-> op, ok |-> FALSE, err |-> code,
    eng |-> IF active = <<>> THEN <<>> ELSE active[1], params |-> params ]

Rejected(op, code) ==
  /\ last' = Failed(op, code, IF active = <<>> THEN <<>> ELSE active[1])
  /\ UNCHANGED <<detail, index, active, report, hostFile, evidenceFile, issued>> /\ clock' = clock + 1

\* The effects of saveMetadataAndRender on the three files it writes.
Saved(meta, fail) ==
  LET s == saveMetadataAndRender(meta, fail)
  IN  /\ detail' = s.detail
      /\ index' = s.index
      /\ report' = s.report

\* hosts.find((h) => h.ip === ip), 0 when there is none.
FindHost(hosts, ip) ==
  IF \E i \in 1..Len(hosts) : hosts[i].ip = ip
  THEN CHOOSE i \in 1..Len(hosts) :
         hosts[i].ip = ip /\ \A j \in 1..(i - 1) : hosts[j].ip # ip
  ELSE 0

\* merged.find((s) => s.port === svc.port && s.proto === svc.proto)
FindService(merged, svc) ==
  IF \E i \in 1..Len(merged) : merged[i].port = svc.port /\ merged[i].proto = svc.proto
  THEN CHOOSE i \in 1..Len(merged) :
         /\ merged[i].port = svc.port /\ merged[i].proto = svc.proto
         /\ \A j \in 1..(i - 1) :
              ~(merged[j].port = svc.port /\ merged[j].proto = svc.proto)
  ELSE 0

\* The three conditional assignments onto a matching service.
OverwriteFields(match, svc) ==
  [match EXCEPT !.service = IF svc.service # "" THEN svc.service ELSE @,
                !.version = IF svc.version # "" THEN svc.version ELSE @,
                !.notes = IF svc.notes # "" THEN svc.notes ELSE @]

\* A merge that keeps the incoming list in place of the recorded one.
replaceServices(merged, incoming) == incoming

RECURSIVE mergeServices(_, _)
mergeServices(merged, incoming) ==
  IF incoming = <<>> THEN merged
  ELSE LET svc == Head(incoming)
           match == FindService(merged, svc)
       IN  mergeServices(
             IF match > 0
             THEN [merged EXCEPT ![match] = OverwriteFields(@, svc)]
             ELSE Append(merged, svc),
             Tail(incoming))

\* The map of discoverHost over params.services.
IncomingService(s) ==
  [ port |-> s.port, proto |-> s.proto,
    service |-> OrDefault(s.service, "unknown"),
    version |-> OrDefault(s.version, ""),
    notes |-> OrDefault(s.notes, "") ]

IncomingServices(list) == [i \in 1..Len(list) |-> IncomingService(list[i])]

\* A fill that takes every supplied value.
FillAlways(recorded, supplied) ==
  IF Truthy(supplied) THEN supplied[1] ELSE recorded

\* if (supplied && !recorded) recorded = supplied, for hostname and os.
FillIfEmpty(recorded, supplied) ==
  IF Truthy(supplied) /\ recorded = "" THEN supplied[1] ELSE recorded

\* The existing-host branch of discoverHost.
MergeHost(host, params) ==
  [host EXCEPT !.hostname = FillIfEmpty(@, params.hostname),
               !.os = FillIfEmpty(@, params.os),
               !.services = IF params.services # <<>>
                            THEN mergeServices(@, IncomingServices(params.services[1]))
                            ELSE @,
               !.updated_at = now]

\* The new-host branch of discoverHost.
NewHost(params) ==
  [ ip |-> params.ip,
    hostname |-> OrDefault(params.hostname, ""),
    os |-> OrDefault(params.os, ""),
    first_seen |-> now, updated_at |-> now,
    services |-> IncomingServices(IF params.services # <<>>
                                  THEN params.services[1] ELSE <<>>),
    enumeration |-> "", vulnerabilities |-> "", exploitation |-> "",
    post_exploitation |-> "", credentials |-> "", key_commands |-> "" ]

discoverHost(params, fail) ==
  IF ~CanLoad THEN Rejected("discoverHost", LoadError)
  ELSE
    LET meta == detail[active[1]]
        at == FindHost(meta.hosts, params.ip)
        host == IF at > 0 THEN MergeHost(meta.hosts[at], params) ELSE NewHost(params)
        hosts == IF at > 0 THEN [meta.hosts EXCEPT ![at] = host]
                 ELSE Append(meta.hosts, host)
    IN  /\ Saved([meta EXCEPT !.hosts = hosts], fail)
        /\ hostFile' = IF Done(fail, "hostfile")
                       THEN WriteFile(hostFile, <<meta.id, host.ip>>, renderHost(host))
                       ELSE hostFile
        /\ last' = [ op |-> "discoverHost", ok |-> fail = "none",
                     err |-> IF fail = "none" THEN "" ELSE fail,
                     eng |-> meta.id, ip |-> params.ip, existed |-> at > 0,
                     before |-> IF at > 0 THEN Len(meta.hosts[at].services) ELSE 0,
                     hostname |-> params.hostname, os |-> params.os,
                     listed |-> IF params.services = <<>> THEN 0
                                ELSE Len(params.services[1]) ]
        /\ UNCHANGED <<active, evidenceFile, issued>> /\ clock' = clock + 1

HOST_SECTIONS ==
  { "enumeration", "vulnerabilities", "exploitation", "post_exploitation",
    "credentials", "key_commands" }

\* An update that puts the new content in the place of the section.
OverwriteSection(current, content) == content

\* current ? `${current}\n\n${params.content}` : params.content
AppendSection(current, content) ==
  IF current # "" THEN current \o "\n\n" \o content ELSE content

updateHost(params, fail) ==
  IF ~CanLoad THEN RejectedAs(Refusal("updateHost", LoadError, params))
  ELSE
    LET meta == detail[active[1]]
        at == FindHost(meta.hosts, params.ip)
    IN  IF at = 0 THEN RejectedAs(Refusal("updateHost", "host_not_found", params))
        ELSE
          LET host == [meta.hosts[at] EXCEPT
                         ![params.section] = AppendSection(@, params.content),
                         !.updated_at = now]
          IN  /\ Saved([meta EXCEPT !.hosts[at] = host], fail)
              /\ hostFile' = IF Done(fail, "hostfile")
                             THEN WriteFile(hostFile, <<meta.id, host.ip>>,
                                            renderHost(host))
                             ELSE hostFile
              /\ last' = [ op |-> "updateHost", ok |-> fail = "none",
                           err |-> IF fail = "none" THEN "" ELSE fail,
                           eng |-> meta.id, params |-> params ]
              /\ UNCHANGED <<active, evidenceFile, issued>> /\ clock' = clock + 1

\* A range check that refuses the two boundary values as well.
OpenRangeCvss(cvss) == cvss # <<>> /\ (cvss[1] <= 0 \/ cvss[1] >= 100)

\* CVSS scores are tenths: 98 is 9.8, the range [0, 10] is 0..100.
BadCvss(cvss) == cvss # <<>> /\ (cvss[1] < 0 \/ cvss[1] > 100)

addFinding(params, fail) ==
  IF ~CanLoad THEN RejectedAs(Refusal("addFinding", LoadError, params))
  ELSE
    LET meta == detail[active[1]]
        id == nextFindingId(meta.findings)
        finding ==
          [ id |-> id, host |-> params.host, vulnerability |-> params.vulnerability,
            severity |-> params.severity, cvss |-> params.cvss,
            status |-> OrDefault(params.status, "confirmed"),
            evidence_file |-> IF Truthy(params.evidence_file)
                              THEN params.evidence_file ELSE None,
            notes |-> OrDefault(params.notes, ""),
            created_at |-> now, updated_at |-> now ]
    IN  IF BadCvss(params.cvss)
        THEN RejectedAs(Refusal("addFinding", "invalid_cvss", params))
        ELSE /\ Len(meta.findings) < MaxFindings
             /\ Saved([meta EXCEPT !.findings = Append(@, finding)], fail)
             /\ last' = [ op |-> "addFinding", ok |-> fail = "none",
                          err |-> IF fail = "none" THEN "" ELSE fail,
                          eng |-> meta.id, id |-> id, params |-> params ]
             /\ issued' = IF fail = "none"
                          THEN WriteFile(issued, meta.id, Append(IssuedOf(meta.id), id))
                          ELSE issued
             /\ UNCHANGED <<active, hostFile, evidenceFile>> /\ clock' = clock + 1

\* findings.find((f) => f.id === id), 0 when there is none.
FindFinding(findings, id) ==
  IF \E i \in 1..Len(findings) : findings[i].id = id
  THEN CHOOSE i \in 1..Len(findings) :
         findings[i].id = id /\ \A j \in 1..(i - 1) : findings[j].id # id
  ELSE 0

\* An update whose notes take the place of the earlier notes.
ReplacedNotes(finding, params) ==
  [finding EXCEPT
     !.severity = IF Truthy(params.severity) THEN params.severity[1] ELSE @,
     !.cvss = IF params.cvss # <<>> THEN params.cvss ELSE @,
     !.status = IF Truthy(params.status) THEN params.status[1] ELSE @,
     !.evidence_file = IF Truthy(params.evidence_file) THEN params.evidence_file ELSE @,
     !.notes = IF Truthy(params.notes) THEN params.notes[1] ELSE @,
     !.updated_at = now]

\* The assignments of updateFinding onto the finding it found.
UpdatedFinding(finding, params) ==
  [finding EXCEPT
     !.severity = IF Truthy(params.severity) THEN params.severity[1] ELSE @,
     !.cvss = IF params.cvss # <<>> THEN params.cvss ELSE @,
     !.status = IF Truthy(params.status) THEN params.status[1] ELSE @,
     !.evidence_file = IF Truthy(params.evidence_file) THEN params.evidence_file ELSE @,
     !.notes = IF Truthy(params.notes)
               THEN (IF @ # "" THEN @ \o "\n\n" \o params.notes[1] ELSE params.notes[1])
               ELSE @,
     !.updated_at = now]

updateFinding(params, fail) ==
  IF ~CanLoad THEN RejectedAs(Refusal("updateFinding", LoadError, params))
  ELSE
    LET meta == detail[active[1]]
        at == FindFinding(meta.findings, params.id)
    IN  IF at = 0
        THEN RejectedAs(Refusal("updateFinding", "finding_not_found", params))
        ELSE IF BadCvss(params.cvss)
        THEN RejectedAs(Refusal("updateFinding", "invalid_cvss", params))
        ELSE /\ Saved([meta EXCEPT !.findings[at] = UpdatedFinding(@, params)], fail)
             /\ last' = [ op |-> "updateFinding", ok |-> fail = "none",
                          err |-> IF fail = "none" THEN "" ELSE fail,
                          eng |-> meta.id, id |-> params.id,
                          params |-> params ]
             /\ UNCHANGED <<active, hostFile, evidenceFile, issued>> /\ clock' = clock + 1

addCredential(params, fail) ==
  IF ~CanLoad THEN Rejected("addCredential", LoadError)
  ELSE
    LET meta == detail[active[1]]
        cred == [ id |-> nextCredId(meta.credentials), source |-> params.source,
                  username |-> params.username,
                  password_or_hash |-> params.password_or_hash,
                  cred_type |-> params.cred_type,
                  access_level |-> OrDefault(params.access_level, ""),
                  verified |-> IF params.verified # <<>> THEN params.verified[1] ELSE FALSE,
                  created_at |-> now ]
    IN  /\ Len(meta.credentials) < MaxCredentials
        /\ Saved([meta EXCEPT !.credentials = Append(@, cred)], fail)
        /\ last' = [ op |-> "addCredential", ok |-> fail = "none",
                     err |-> IF fail = "none" THEN "" ELSE fail,
                     eng |-> meta.id, id |-> cred.id ]
        /\ UNCHANGED <<active, hostFile, evidenceFile, issued>> /\ clock' = clock + 1

\* detectTool is applied to commands of the form "<tool> <arguments>" with
\* no path prefix, for which it returns the first token.
logCommand(params, fail) ==
  IF ~CanLoad THEN Rejected("logCommand", LoadError)
  ELSE
    LET meta == detail[active[1]]
        entry == [ id |-> nextCmdId(meta.command_log), command |-> params.command,
                   tool |-> OrDefault(params.tool, params.firstToken),
                   target |-> OrDefault(params.target, ""),
                   started_at |-> now, finished_at |-> now,
                   duration_seconds |-> None, exit_code |-> None,
                   evidence_file |-> None, parsed |-> FALSE, source |-> "mcp" ]
    IN  /\ Len(meta.command_log) < MaxCommands
        /\ Saved([meta EXCEPT !.command_log = Append(@, entry)], fail)
        /\ last' = [ op |-> "logCommand", ok |-> fail = "none",
                     err |-> IF fail = "none" THEN "" ELSE fail,
                     eng |-> meta.id, id |-> entry.id ]
        /\ UNCHANGED <<active, hostFile, evidenceFile, issued>> /\ clock' = clock + 1

\* ---------------------------------------------------------- tracking
logDeadEnd(params, fail) ==
  IF ~CanLoad THEN Rejected("logDeadEnd", LoadError)
  ELSE
    LET meta == detail[active[1]]
        entry == [ timestamp |-> now, technique |-> params.technique,
                   target |-> params.target, reason |-> params.reason ]
    IN  /\ Saved([meta EXCEPT !.dead_ends = Append(@, entry)], fail)
        /\ last' = [ op |-> "logDeadEnd", ok |-> fail = "none",
                     err |-> IF fail = "none" THEN "" ELSE fail,
                     eng |-> meta.id ]
        /\ UNCHANGED <<active, hostFile, evidenceFile, issued>> /\ clock' = clock + 1

addTodo(params, fail) ==
  IF ~CanLoad THEN Rejected("addTodo", LoadError)
  ELSE
    LET meta == detail[active[1]]
        todo == [ id |-> nextTodoId(meta.todos), description |-> params.description,
                  priority |-> OrDefault(params.priority, "medium"),
                  status |-> "pending", created_at |-> now, completed_at |-> None ]
    IN  /\ Len(meta.todos) < MaxTodos
        /\ Saved([meta EXCEPT !.todos = Append(@, todo)], fail)
        /\ last' = [ op |-> "addTodo", ok |-> fail = "none",
                     err |-> IF fail = "none" THEN "" ELSE fail,
                     eng |-> meta.id, id |-> todo.id ]
        /\ UNCHANGED <<active, hostFile, evidenceFile, issued>> /\ clock' = clock + 1

\* A lookup that settles for the first todo whatever its id.
FirstTodo(todos, id) == IF todos = <<>> THEN 0 ELSE 1

\* todos.find((t) => t.id === id), 0 when there is none.
FindTodo(todos, id) ==
  IF \E i \in 1..Len(todos) : todos[i].id = id
  THEN CHOOSE i \in 1..Len(todos) :
         todos[i].id = id /\ \A j \in 1..(i - 1) : todos[j].id # id
  ELSE 0

\* A completion that stamps the time and leaves the status alone.
StampOnly(todo) == [todo EXCEPT !.completed_at = Some(now)]

\* todo.status = "completed"; todo.completed_at = now()
MarkCompleted(todo) ==
  [todo EXCEPT !.status = "completed", !.completed_at = Some(now)]

completeTodo(params, fail) ==
  IF ~CanLoad THEN RejectedAs(Refusal("completeTodo", LoadError, params))
  ELSE
    LET meta == detail[active[1]]
        at == FindTodo(meta.todos, params.id)
    IN  IF at = 0 THEN RejectedAs(Refusal("completeTodo", "todo_not_found", params))
        ELSE /\ Saved([meta EXCEPT !.todos[at] = MarkCompleted(@)], fail)
             /\ last' = [ op |-> "completeTodo", ok |-> fail = "none",
                          err |-> IF fail = "none" THEN "" ELSE fail,
                          eng |-> meta.id, id |-> params.id,
                          params |-> params ]
             /\ UNCHANGED <<active, hostFile, evidenceFile, issued>>
             /\ clock' = clock + 1

\* ---------------------------------------------------------- narrative
\* A numbering that gives every step the number 1.
StepOne(path) == 1

\* const step = meta.attack_path.length + 1
StepAfter(path) == Len(path) + 1

updateAttackPath(params, fail) ==
  IF ~CanLoad THEN RejectedAs(Refusal("updateAttackPath", LoadError, params))
  ELSE
    LET meta == detail[active[1]]
        entry == [ step |-> StepAfter(meta.attack_path),
                   description |-> params.description, timestamp |-> now ]
    IN  /\ Len(meta.attack_path) < MaxSteps
        /\ Saved([meta EXCEPT !.attack_path = Append(@, entry)], fail)
        /\ last' = [ op |-> "updateAttackPath", ok |-> fail = "none",
                     err |-> IF fail = "none" THEN "" ELSE fail,
                     eng |-> meta.id, step |-> entry.step, params |-> params ]
        /\ UNCHANGED <<active, hostFile, evidenceFile, issued>> /\ clock' = clock + 1

updateExecutiveSummary(params, fail) ==
  IF ~CanLoad THEN RejectedAs(Refusal("updateExecutiveSummary", LoadError, params))
  ELSE
    LET meta == detail[active[1]]
    IN  /\ Saved([meta EXCEPT !.executive_summary = params.summary], fail)
        /\ last' = [ op |-> "updateExecutiveSummary", ok |-> fail = "none",
                     err |-> IF fail = "none" THEN "" ELSE fail,
                     eng |-> meta.id, params |-> params ]
        /\ UNCHANGED <<active, hostFile, evidenceFile, issued>> /\ clock' = clock + 1

\* ----------------------------------------------------------- evidence
\* params.filename.includes("/") || params.filename.includes("\\")
HasSeparator(filename) ==
  \E i \in 1..Len(filename) : filename[i] \in {"/", "\\"}

\* evidence_index.findIndex((e) => e.filename === filename), 0 for -1.
FindEvidence(entries, filename) ==
  IF \E i \in 1..Len(entries) : entries[i].filename = filename
  THEN CHOOSE i \in 1..Len(entries) :
         /\ entries[i].filename = filename
         /\ \A j \in 1..(i - 1) : entries[j].filename # filename
  ELSE 0

\* The filename is validated before the active engagement is looked up.
saveEvidence(params, fail) ==
  IF HasSeparator(params.filename)
  THEN Rejected("saveEvidence", "invalid_filename")
  ELSE IF ~CanLoad THEN Rejected("saveEvidence", LoadError)
  ELSE
    LET meta == detail[active[1]]
        filePath == <<meta.id, params.filename>>
        overwritten == filePath \in DOMAIN evidenceFile
        existingIdx == FindEvidence(meta.evidence_index, params.filename)
        entry == [ filename |-> params.filename,
                   description |-> IF TruthyText(params.description)
                                   THEN params.description[1]
                                   ELSE params.filename,
                   related_finding_id |-> IF TruthyText(params.related_finding_id)
                                          THEN params.related_finding_id ELSE None,
                   created_at |-> now ]
        entries == IF existingIdx > 0
                   THEN [meta.evidence_index EXCEPT ![existingIdx] = entry]
                   ELSE Append(meta.evidence_index, entry)
    IN  /\ evidenceFile' = IF Done(fail, "evidence")
                           THEN WriteFile(evidenceFile, filePath, params.content)
                           ELSE evidenceFile
        /\ IF Done(fail, "evidence")
           THEN Saved([meta EXCEPT !.evidence_index = entries], fail)
           ELSE UNCHANGED <<detail, index, report>>
        /\ last' = [ op |-> "saveEvidence", ok |-> fail = "none",
                     err |-> IF fail = "none" THEN "" ELSE fail,
                     eng |-> meta.id, filename |-> params.filename,
                     overwritten |-> overwritten, params |-> params ]
        /\ UNCHANGED <<active, hostFile, issued>> /\ clock' = clock + 1

\* ------------------------------------------------------------ reading
\* const text = `${...} ${...}`; text.toLowerCase().includes(q).  Queries
\* are drawn lowercase from whole field values, none of which is a fragment
\* of another, so the text includes the query when a field is the query.
Includes(fields, q) == \E i \in 1..Len(fields) : fields[i] = q

\* Each loop pushes a line for every element whose text includes q.
searchMetadata(meta, q) ==
  LET FilterMap(s, Test(_), Line(_)) ==
        LET kept == SelectSeq(s, Test) IN [i \in 1..Len(kept) |-> Line(kept[i])]
      FHit(f) == Includes(<<f.host, f.vulnerability, f.notes>>, q)
      FLine(f) == [kind |-> "Finding", id |-> f.id, on |-> f.host]
      HHit(h) == Includes(<<h.ip, h.hostname, h.os, h.enumeration,
                            h.vulnerabilities, h.exploitation>>, q)
      HLine(h) == [kind |-> "Host", id |-> h.ip, on |-> h.hostname]
      CHit(c) == Includes(<<c.source, c.username>>, q)
      CLine(c) == [kind |-> "Credential", id |-> c.id, on |-> c.source]
      DHit(d) == Includes(<<d.technique, d.target, d.reason>>, q)
      DLine(d) == [kind |-> "Dead End", id |-> d.technique, on |-> d.target]
      AHit(a) == Includes(<<a.description>>, q)
      ALine(a) == [kind |-> "Attack Path Step", id |-> a.step, on |-> a.description]
      KHit(c) == Includes(<<c.command, c.tool, c.target>>, q)
      KLine(c) == [kind |-> "Command", id |-> c.id, on |-> c.tool]
  IN  FilterMap(meta.findings, FHit, FLine)
        \o FilterMap(meta.hosts, HHit, HLine)
        \o FilterMap(meta.credentials, CHit, CLine)
        \o FilterMap(meta.dead_ends, DHit, DLine)
        \o FilterMap(meta.attack_path, AHit, ALine)
        \o FilterMap(meta.command_log, KHit, KLine)

\* What readNotes returns: a message or the lines of a listing.
Message(text) == [text |-> text, lines |-> <<>>]
Listing(lines, ifEmpty) ==
  IF lines = <<>> THEN Message(ifEmpty) ELSE [text |-> "", lines |-> lines]

RECURSIVE searchAll(_, _)
\* for (const entry of index): the sections of the engagements with matches;
\* an entry whose detail record is absent is skipped.
searchAll(entries, q) ==
  IF entries = <<>> THEN <<>>
  ELSE LET entry == Head(entries)
           matches == IF entry.id \in DOMAIN detail
                      THEN searchMetadata(detail[entry.id], q) ELSE <<>>
       IN  (IF matches # <<>>
            THEN <<[id |-> entry.id, target |-> entry.target, matches |-> matches]>>
            ELSE <<>>) \o searchAll(Tail(entries), q)

\* The listing readNotes returns for `what` on the active record.
ReadOf(meta, params) ==
  LET Pending(t) == t.status = "pending"
      Completed(t) == t.status = "completed"
  IN  CASE params.what = "findings" -> [text |-> "", lines |-> <<renderFindings(meta)>>]
        [] params.what = "host" ->
             IF ~Truthy(params.host_ip)
             THEN Message("Error: host_ip is required when reading a host.")
             ELSE IF FindHost(meta.hosts, params.host_ip[1]) = 0
             THEN Message("Host not found.")
             ELSE [text |-> "",
                   lines |-> <<renderHost(meta.hosts[FindHost(meta.hosts, params.host_ip[1])])>>]
        [] params.what = "evidence_index" ->
             Listing(meta.evidence_index, "No evidence files indexed.")
        [] params.what = "todos" ->
             Listing(SelectSeq(meta.todos, Pending)
                       \o SelectSeq(meta.todos, Completed), "No TODOs.")
        [] params.what = "attack_path" ->
             Listing(meta.attack_path, "No attack path documented.")
        [] params.what = "dead_ends" ->
             Listing(meta.dead_ends, "No dead ends recorded.")
        [] params.what = "credentials" ->
             Listing(meta.credentials, "No credentials captured.")
        [] params.what = "command_log" ->
             Listing(meta.command_log, "No commands logged.")
        [] params.what = "search" ->
             IF ~Truthy(params.query)
             THEN Message("No query provided for search.")
             ELSE Listing(searchMetadata(meta, params.query[1]), "No results found.")

\* The search over every engagement is answered before the active
\* engagement is looked up; every other read loads the active record.
readNotes(params) ==
  /\ IF params.what = "search" /\ params.scope = Some("all")
     THEN last' = [ op |-> "readNotes", ok |-> TRUE, err |-> "", eng |-> <<>>,
                    result |-> IF ~Truthy(params.query)
                               THEN Message("No query provided for search.")
                               ELSE Listing(searchAll(index, params.query[1]),
                                            "No results found.") ]
     ELSE IF ~CanLoad
     THEN last' = Failed("readNotes", LoadError,
                         IF active = <<>> THEN <<>> ELSE active[1])
     ELSE last' = [ op |-> "readNotes", ok |-> TRUE, err |-> "", eng |-> active[1],
                    result |-> ReadOf(detail[active[1]], params) ]
  /\ UNCHANGED <<detail, index, active, report, hostFile, evidenceFile, issued>>
  /\ clock' = clock + 1

\* ------------------------------------------------------------- inputs
Scope == <<"10.0.0.0/24">>
UnknownId == <<"day0", "-", "z">>

\* "index" stands for both ways the index upsert fails: the lock is not
\* acquired, or the rewrite inside the critical section throws.
CreateFailures == {"none", "detail", "index", "state", "render"}
CloseFailures == {"none", "detail", "index", "state", "render", "hostfile"}
HostFailures == SaveFailures \cup {"hostfile"}
IndexFailures == {"none", "index"}
NoFailure == {"none"}

\* Two targets with the same slug.
FewTargets == {<<"a">>, <<"A">>}

FewHostParams ==
  [ ip : {"10.0.0.1"}, hostname : {None}, os : {None},
    services : {None, Some(<<[port |-> 22, proto |-> "tcp", service |-> Some("ssh"),
                              version |-> None, notes |-> None]>>)} ]

FewFindingParams ==
  [ host : {"10.0.0.1"}, vulnerability : {"sqli"}, severity : {"high"},
    cvss : {Some(98)}, status : {None}, evidence_file : {None}, notes : {None} ]

FewFindingUpdates ==
  [ id : {FormatId(FPrefix, 1)}, severity : {Some("low")}, cvss : {None},
    status : {None}, evidence_file : {None}, notes : {None} ]

FewCredentialParams ==
  [ source : {"dump"}, username : {"root"}, password_or_hash : {"toor"},
    cred_type : {"password"}, access_level : {None}, verified : {None} ]

FewCommandParams ==
  [ command : {"nmap -sV"}, firstToken : {"nmap"}, tool : {None},
    target : {None} ]

\* A workload of host discoveries.  Each listed service takes one of three
\* shapes: every detail supplied; only a version, with the notes left empty
\* and the name omitted (the re-discovery of the repository's own test);
\* name and notes left empty.
ServiceDetails ==
  { [service |-> Some("ssh"), version |-> Some("v1"), notes |-> Some("n1")],
    [service |-> None, version |-> Some("v2"), notes |-> Some("")],
    [service |-> Some(""), version |-> None, notes |-> None] }

\* Two (port, proto) pairs that share the port.
ListedPairs == {<<22, "tcp">>, <<22, "udp">>}

ListedServices ==
  { [port |-> pq[1], proto |-> pq[2], service |-> d.service,
     version |-> d.version, notes |-> d.notes] :
      pq \in ListedPairs, d \in ServiceDetails }

\* Lists of at most two listed services, a pair repeated or not.
ServiceLists ==
  {<<>>} \cup {<<a>> : a \in ListedServices}
         \cup {<<a, b>> : a \in ListedServices, b \in ListedServices}

\* Calls that vary the services of one host, and calls that vary the
\* hostname and the OS of two hosts.
RichHostParams ==
  [ ip : {"10.0.0.1"}, hostname : {None}, os : {None},
    services : {Some(l) : l \in ServiceLists} ]
  \cup
  [ ip : {"10.0.0.1", "10.0.0.2"}, hostname : {None, Some("h1"), Some("h2")},
    os : {None, Some(""), Some("o1")}, services : {None} ]

FewDeadEndParams == [ technique : {"relay"}, target : {"10.0.0.1"}, reason : {"signing"} ]

FewTodoParams == [ description : {"check smb"}, priority : {None, Some("high")} ]

FewTodoIds == [ id : {FormatId(TPrefix, 1), FormatId(TPrefix, 9)} ]

\* A plain filename and one with a path separator.
FewEvidenceParams ==
  [ filename : {<<"a">>, <<".", ".", "/", "a">>}, content : {"c1"},
    description : {None}, related_finding_id : {None} ]

FewReadParams ==
  [ what : {"findings", "todos", "search"}, host_ip : {None},
    query : {None, Some("sqli")}, scope : {None, Some("all")} ]

\* Arguments every handler refuses on their own account: a CVSS above 10,
\* a finding id and a todo id nobody issued.
BadFindingParams ==
  [ host : {"10.0.0.1"}, vulnerability : {"sqli"}, severity : {"high"},
    cvss : {Some(101)}, status : {None}, evidence_file : {None}, notes : {None} ]

BadFindingUpdates ==
  [ id : {FormatId(FPrefix, 9)}, severity : {None}, cvss : {Some(101)},
    status : {None}, evidence_file : {None}, notes : {None} ]

\* CVSS scores on and next to the two boundaries: -0.1, 0, 10, 10.1.
CvssValues == {None, Some(0 - 1), Some(0), Some(100), Some(101)}

CvssFindingParams ==
  [ host : {"10.0.0.1"}, vulnerability : {"sqli"}, severity : {"high"},
    cvss : CvssValues, status : {None}, evidence_file : {None},
    notes : {None, Some("n0")} ]

\* Updates that vary the CVSS of a known and of an unknown finding, updates
\* that supply any of the other fields or leave them out (an evidence file
\* and notes may be supplied empty), updates with further notes, and an
\* update with a new severity and a CVSS out of range.
ManyFindingUpdates ==
  [ id : {FormatId(FPrefix, 1), FormatId(FPrefix, 9)}, severity : {None},
    cvss : CvssValues, status : {None}, evidence_file : {None}, notes : {None} ]
  \cup
  [ id : {FormatId(FPrefix, 1)}, severity : {None, Some("low")},
    cvss : {None, Some(0)}, status : {None, Some("exploited")},
    evidence_file : {None, Some(""), Some("b.txt")}, notes : {None, Some("x")} ]
  \cup
  [ id : {FormatId(FPrefix, 1)}, severity : {None}, cvss : {None},
    status : {None}, evidence_file : {None}, notes : {Some(""), Some("y")} ]
  \cup
  [ id : {FormatId(FPrefix, 1)}, severity : {Some("low")}, cvss : {Some(101)},
    status : {None}, evidence_file : {None}, notes : {None} ]

\* Appends to two sections of a known host (a piece may be empty), and an
\* append to a host nobody discovered.
FewSectionParams ==
  [ ip : {"10.0.0.1"}, section : {"enumeration", "credentials"},
    content : {"c1", "c2", ""} ]
  \cup
  [ ip : {"10.0.0.9"}, section : {"enumeration"}, content : {"c1"} ]

\* An append to a host that may or may not have been discovered.
GateSectionParams ==
  [ ip : {"10.0.0.1", "10.0.0.9"}, section : {"enumeration"}, content : {"c1"} ]

\* Two filenames, two contents, a description given or left out.
ManyEvidenceParams ==
  [ filename : {<<"a">>, <<"b">>}, content : {"c1", "c2"},
    description : {None, Some(<<"d">>)}, related_finding_id : {None} ]

EvidenceFailures == {"none", "evidence", "detail", "index", "render"}

FewStepParams == [ description : {"scan", "sqli"} ]

FewSummaryParams == [ summary : {"s1"} ]

\* ------------------------------------------------------------ workloads
\* Each takes the arguments and the failures its workload draws from.  A run
\* has at most MaxFaults calls cut short.
Fault(f) ==
  IF f = "none" THEN faults' = faults
  ELSE faults < MaxFaults /\ faults' = faults + 1

DoCreate(targets, failures, cap) ==
  \E t \in targets, f \in failures :
    /\ Cardinality(DOMAIN detail \cup {ResolveId(index, CandidateId(t))}) <= cap
    /\ Fault(f) /\ UNCHANGED <<fsVars, lockVars>>
    /\ createEngagement(t, Scope, None, f)

DoResume ==
  \E id \in DOMAIN detail \cup {UnknownId} : Fault("none") /\ UNCHANGED <<fsVars, lockVars>> /\ resumeEngagement(id)

DoClose(failures) ==
  \E st \in {None, Some("paused")}, f \in failures :
    Fault(f) /\ UNCHANGED <<fsVars, lockVars>>
    /\ closeEngagement(st, IF st = None THEN Some("done") ELSE None, f)

DoRemoveIndexEntry(failures) ==
  \E i \in 1..Len(index), f \in failures :
    Fault(f) /\ UNCHANGED <<fsVars, lockVars>> /\ removeIndexEntry(index[i].id, f)

DoDiscoverHost(params, failures) ==
  \E p \in params, f \in failures :
    Fault(f) /\ UNCHANGED <<fsVars, lockVars>> /\ discoverHost(p, f)

DoUpdateHost(params, failures) ==
  \E p \in params, f \in failures :
    Fault(f) /\ UNCHANGED <<fsVars, lockVars>> /\ updateHost(p, f)

DoAddFinding(params, failures) ==
  \E p \in params, f \in failures :
    Fault(f) /\ UNCHANGED <<fsVars, lockVars>> /\ addFinding(p, f)

DoUpdateFinding(params, failures) ==
  \E p \in params, f \in failures :
    Fault(f) /\ UNCHANGED <<fsVars, lockVars>> /\ updateFinding(p, f)

DoAddCredential(params, failures) ==
  \E p \in params, f \in failures :
    Fault(f) /\ UNCHANGED <<fsVars, lockVars>> /\ addCredential(p, f)

DoLogCommand(params, failures) ==
  \E p \in params, f \in failures :
    Fault(f) /\ UNCHANGED <<fsVars, lockVars>> /\ logCommand(p, f)

DoLogDeadEnd(params, failures) ==
  \E p \in params, f \in failures :
    Fault(f) /\ UNCHANGED <<fsVars, lockVars>> /\ logDeadEnd(p, f)

DoAddTodo(params, failures) ==
  \E p \in params, f \in failures :
    Fault(f) /\ UNCHANGED <<fsVars, lockVars>> /\ addTodo(p, f)

DoCompleteTodo(params, failures) ==
  \E p \in params, f \in failures :
    Fault(f) /\ UNCHANGED <<fsVars, lockVars>> /\ completeTodo(p, f)

DoUpdateAttackPath(params, failures) ==
  \E p \in params, f \in failures :
    Fault(f) /\ UNCHANGED <<fsVars, lockVars>> /\ updateAttackPath(p, f)

DoUpdateExecutiveSummary(params, failures) ==
  \E p \in params, f \in failures :
    Fault(f) /\ UNCHANGED <<fsVars, lockVars>> /\ updateExecutiveSummary(p, f)

DoSaveEvidence(params, failures) ==
  \E p \in params, f \in failures :
    Fault(f) /\ UNCHANGED <<fsVars, lockVars>> /\ saveEvidence(p, f)

DoReadNotes(params) ==
  \E p \in params :
    Fault("none") /\ UNCHANGED <<fsVars, lockVars>> /\ readNotes(p)

\* ------------------------------------------------------ the index lock
\* withLock(lockPath, fn) asks proper-lockfile for the lock on .nyx.lock
\* with `stale: 10000` and `retries: 5`, runs fn and releases the lock in a
\* finally block.  The library is used through its contract: an attempt
\* takes the lock in one step when it is free or stale; a live holder
\* re-stamps its lock well inside the staleness interval, so only the lock
\* of a dead holder ages; a failed attempt is retried after a backoff until
\* the retries are used up, and then the call throws ELOCKED.
stale == 10000
retries == 5

\* The processes that call updateIndexEntry / removeIndexEntry, one call each.
LockProcs == {"p1", "p2", "p3"}

\* The id a process works on, and the entry it upserts.
IdOf(p) == <<p>>
EntryOf(p) == buildIndexEntry(makeEmptyMetadata(IdOf(p), IdOf(p), Scope, ""))

NoLock == <<>>
NotCalling ==
  [pc |-> "idle", op |-> "", attempts |-> 0, waited |-> FALSE, local |-> <<>>,
   err |-> FALSE, how |-> ""]

\* A lock that always looks abandoned.
AlwaysStale(lk) == TRUE

\* A lock that never expires.
NeverStale(lk) == FALSE

\* The lock is older than the staleness interval.
IsStale(lk) == lk.age * TickMs > stale

\* A lock-acquisition attempt that never finds the lock taken.
AlwaysAcquire(lk) == TRUE

\* An attempt succeeds on a free lock and on a stale one.
CanAcquire(lk) == lk = NoLock \/ IsStale(lk)

\* An acquisition that retries for ever.
NeverGiveUp(made) == FALSE

\* The attempt just made, the made-th of the call, was the last one allowed:
\* the first attempt and `retries` retries.
GiveUp(made) == made > retries

\* A release that is skipped when the critical section threw.
UnlockOnSuccess(lk, p, err) ==
  IF lk # NoLock /\ lk.holder = p /\ ~err THEN NoLock ELSE lk

\* finally { await release(); }
Unlock(lk, p, err) == IF lk # NoLock /\ lk.holder = p THEN NoLock ELSE lk

\* A process calls updateIndexEntry(entry) or removeIndexEntry(id).
beginCall(p, op) ==
  /\ proc[p].pc = "idle"
  /\ proc' = [proc EXCEPT ![p].pc = "lock", ![p].op = op]
  /\ UNCHANGED <<lock, index>>

\* await lockfile.lock(lockPath, {...}): one attempt.
lockAttempt(p) ==
  /\ proc[p].pc = "lock"
  /\ LET made == proc[p].attempts + 1
     IN  IF CanAcquire(lock)
         THEN /\ lock' = [holder |-> p, age |-> 0]
              /\ proc' = [proc EXCEPT ![p].pc = "read", ![p].attempts = 0,
                                      ![p].waited = made > 1,
                                      ![p].how = IF lock = NoLock THEN "free" ELSE "stale"]
         ELSE /\ lock' = lock
              /\ proc' = [proc EXCEPT ![p].attempts = made,
                                      ![p].pc = IF GiveUp(made) THEN "ELOCKED" ELSE "lock"]
  /\ UNCHANGED <<index>>

\* const index = await getIndex(), inside the critical section.
csRead(p) ==
  /\ proc[p].pc = "read"
  /\ proc' = [proc EXCEPT ![p].pc = "write", ![p].local = index]
  /\ UNCHANGED <<lock, index>>

\* The modification and the rewrite of index.json; the rewrite may throw.
csWrite(p, ok) ==
  /\ proc[p].pc = "write"
  /\ index' = IF ~ok THEN index
              ELSE IF proc[p].op = "update" THEN UpsertEntry(proc[p].local, EntryOf(p))
              ELSE FilterEntry(proc[p].local, IdOf(p))
  /\ proc' = [proc EXCEPT ![p].pc = "release", ![p].err = ~ok, ![p].local = <<>>]
  /\ UNCHANGED <<lock>>

\* The finally block, and the return or the rethrow that follows it.
releaseLock(p) ==
  /\ proc[p].pc = "release"
  /\ lock' = Unlock(lock, p, proc[p].err)
  /\ proc' = [proc EXCEPT ![p].pc = IF proc[p].err THEN "failed" ELSE "done"]
  /\ UNCHANGED <<index>>

\* The call of p is between its first attempt and its return.
InCall(p) == proc[p].pc \in {"lock", "read", "write", "release"}

\* A process dies in the middle of its call; its lock stays behind.  One
\* process dies in a run.
die(p) ==
  /\ InCall(p)
  /\ \A q \in LockProcs : proc[q].pc # "crashed"
  /\ proc' = [proc EXCEPT ![p].pc = "crashed"]
  /\ UNCHANGED <<lock, index>>

\* The lock is held in the name of a dead process.
DeadHeld == lock # NoLock /\ proc[lock.holder].pc = "crashed"

\* TickMs pass: the lock of a dead holder, which nobody re-stamps, ages.
tick ==
  /\ DeadHeld /\ lock.age * TickMs <= stale
  /\ lock' = [lock EXCEPT !.age = @ + 1]
  /\ UNCHANGED <<proc, index>>

\* What the lock-level steps leave alone.
aboveLock == <<detail, active, report, hostFile, evidenceFile, clock, last, issued, faults, task>>

NextLock ==
  \/ \E p \in LockProcs, op \in {"update", "remove"} :
       beginCall(p, op) /\ UNCHANGED <<aboveLock, fsVars>>
  \/ \E p \in LockProcs : lockAttempt(p) /\ UNCHANGED <<aboveLock, fsVars>>
  \/ \E p \in LockProcs : csRead(p) /\ UNCHANGED <<aboveLock, fsVars>>
  \/ \E p \in LockProcs, ok \in BOOLEAN : csWrite(p, ok) /\ UNCHANGED <<aboveLock, fsVars>>
  \/ \E p \in LockProcs : releaseLock(p) /\ UNCHANGED <<aboveLock, fsVars>>
  \/ \E p \in LockProcs : die(p) /\ UNCHANGED <<aboveLock, fsVars>>
  \/ tick /\ UNCHANGED <<aboveLock, fsVars>>

\* ------------------------------------------- tool calls of two processes
\* Two server processes work on the same data directory.  A tool call is a
\* chain of awaited file operations, and between two of them the other
\* process may run.  metadata.json, state.json and FINDINGS.md are written
\* through a temp path that is salted with the pid, so a write of one
\* process replaces the file as a whole; the read-modify-write of
\* index.json runs under the lock and is one step.
ServerProcs == {"s1", "s2"}

Resting ==
  [ pc |-> "idle", op |-> "", target |-> <<>>, id |-> <<>>, loaded |-> None,
    meta |-> None, during |-> {}, calls |-> 0, err |-> "" ]

RaceOps == {"addFinding", "addCredential", "closeEngagement", "createEngagement"}
RaceTargets == {<<"a">>, <<"b">>}

\* The arguments of the sub-entity calls: each process reports the host it
\* works on and the account it found there.
RaceFindingParams(p) ==
  [ host |-> p, vulnerability |-> "sqli", severity |-> "high",
    cvss |-> Some(98), status |-> None, evidence_file |-> None, notes |-> None ]

RaceCredentialParams(p) ==
  [ source |-> "dump", username |-> p, password_or_hash |-> "toor",
    cred_type |-> "password", access_level |-> None, verified |-> None ]

\* The engagement both processes find: created earlier, active, empty.
EarlierEngagement ==
  makeEmptyMetadata(ResolveId(<<>>, DateOf(0) \o <<"-">> \o slugify(<<"a">>)),
                    <<"a">>, Scope, "")

\* The call of q is between its first file operation and its return.
InFlight(q) == task[q].pc \notin {"idle", "done", "failed"}

\* What the tool does to the record it loaded, before saveMetadataAndRender
\* or closeEngagement stamps and writes it.
MutateInMemory(op, meta, p) ==
  CASE op = "addFinding" ->
         [meta EXCEPT !.updated_at = now,
            !.findings = Append(@,
               [ id |-> nextFindingId(meta.findings), host |-> RaceFindingParams(p).host,
                 vulnerability |-> RaceFindingParams(p).vulnerability,
                 severity |-> RaceFindingParams(p).severity, cvss |-> RaceFindingParams(p).cvss,
                 status |-> OrDefault(RaceFindingParams(p).status, "confirmed"),
                 evidence_file |-> None,
                 notes |-> OrDefault(RaceFindingParams(p).notes, ""),
                 created_at |-> now, updated_at |-> now ])]
    [] op = "addCredential" ->
         [meta EXCEPT !.updated_at = now,
            !.credentials = Append(@,
               [ id |-> nextCredId(meta.credentials), source |-> RaceCredentialParams(p).source,
                 username |-> RaceCredentialParams(p).username,
                 password_or_hash |-> RaceCredentialParams(p).password_or_hash,
                 cred_type |-> RaceCredentialParams(p).cred_type,
                 access_level |-> OrDefault(RaceCredentialParams(p).access_level, ""),
                 verified |-> FALSE, created_at |-> now ])]
    [] op = "closeEngagement" ->
         [meta EXCEPT !.status = "completed", !.updated_at = now]

\* A process receives a tool call.  createEngagement reads the date and
\* derives its candidate id at once.
raceCall(p, op, target) ==
  /\ task[p].pc = "idle" /\ task[p].calls < RaceCalls
  /\ clock' = clock + 1
  /\ task' = [task EXCEPT ![p] =
       [ pc |-> IF op = "createEngagement" THEN "getIndex" ELSE "state",
         op |-> op,
         target |-> IF op = "createEngagement" THEN target ELSE <<>>,
         id |-> IF op = "createEngagement" THEN CandidateId(target) ELSE <<>>,
         loaded |-> None, meta |-> None,
         during |-> { q \in ServerProcs \ {p} : InFlight(q) },
         calls |-> task[p].calls + 1, err |-> "" ]]
  /\ UNCHANGED <<detail, index, active, report, hostFile>>

\* const index = await getIndex(), the collision loop and makeEmptyMetadata.
raceGetIndex(p) ==
  /\ task[p].pc = "getIndex"
  /\ LET id == ResolveId(index, task[p].id)
     IN  task' = [task EXCEPT ![p].pc = "detail", ![p].id = id,
                              ![p].meta = Some(makeEmptyMetadata(id, task[p].target, Scope, ""))]
  /\ UNCHANGED <<detail, index, active, report, hostFile, clock>>

\* requireActiveEngagement(): the read of state.json.
raceReadState(p) ==
  /\ task[p].pc = "state"
  /\ task' = IF active = <<>>
             THEN [task EXCEPT ![p].pc = "failed", ![p].err = "no_active_engagement"]
             ELSE [task EXCEPT ![p].pc = "load", ![p].id = active[1]]
  /\ UNCHANGED <<detail, index, active, report, hostFile, clock>>

\* readJSON(getMetadataPath(id)) and the synchronous code up to the first
\* await of the save.
raceLoad(p) ==
  /\ task[p].pc = "load"
  /\ task' = [task EXCEPT ![p].pc = "detail",
                          ![p].loaded = Some(detail[task[p].id]),
                          ![p].meta = Some(MutateInMemory(task[p].op, detail[task[p].id], p))]
  /\ UNCHANGED <<detail, index, active, report, hostFile, clock>>

\* await writeJSON(getMetadataPath(meta.id), meta)
raceWriteDetail(p) ==
  /\ task[p].pc = "detail"
  /\ detail' = WriteDetail(detail, task[p].meta[1])
  /\ task' = [task EXCEPT ![p].pc = "index"]
  /\ UNCHANGED <<index, active, report, hostFile, clock>>

\* await updateIndexEntry(buildIndexEntry(meta))
raceUpsertIndex(p) ==
  /\ task[p].pc = "index"
  /\ index' = UpsertEntry(index, buildIndexEntry(task[p].meta[1]))
  /\ task' = [task EXCEPT ![p].pc =
                IF task[p].op \in {"createEngagement", "closeEngagement"}
                THEN "setState" ELSE "render"]
  /\ UNCHANGED <<detail, active, report, hostFile, clock>>

\* await setActiveEngagement(id) in createEngagement,
\* await clearActiveEngagement() in closeEngagement.
raceWriteState(p) ==
  /\ task[p].pc = "setState"
  /\ active' = IF task[p].op = "createEngagement" THEN Some(task[p].id) ELSE None
  /\ task' = [task EXCEPT ![p].pc = "render"]
  /\ UNCHANGED <<detail, index, report, hostFile, clock>>

\* The write of FINDINGS.md, and the host files of closeEngagement; then
\* the call returns.
raceRender(p) ==
  /\ task[p].pc = "render"
  /\ report' = WriteFile(report, task[p].id, renderFindings(task[p].meta[1]))
  /\ hostFile' = IF task[p].op = "closeEngagement"
                 THEN RenderHosts(hostFile, task[p].meta[1]) ELSE hostFile
  /\ task' = [task EXCEPT ![p].pc = "done"]
  /\ UNCHANGED <<detail, index, active, clock>>

\* What the steps of the two processes leave alone.
besideRace == <<evidenceFile, last, issued, faults, dir, inode, writer, lock, proc>>

InitRace ==
  /\ clock = 0
  /\ detail = [ i \in {EarlierEngagement.id} |-> EarlierEngagement ]
  /\ index = <<buildIndexEntry(EarlierEngagement)>>
  /\ active = Some(EarlierEngagement.id)
  /\ report = [ i \in {EarlierEngagement.id} |-> renderFindings(EarlierEngagement) ]
  /\ hostFile = <<>> /\ evidenceFile = <<>>
  /\ last = NoCall /\ issued = <<>> /\ faults = 0
  /\ dir = <<>> /\ inode = <<>>
  /\ writer = [w \in Writers |-> Idle]
  /\ lock = NoLock
  /\ proc = [p \in LockProcs |-> NotCalling]
  /\ task = [p \in ServerProcs |-> Resting]

NextRace ==
  \/ \E p \in ServerProcs, op \in RaceOps, t \in RaceTargets :
       raceCall(p, op, t) /\ UNCHANGED besideRace
  \/ \E p \in ServerProcs : raceGetIndex(p) /\ UNCHANGED besideRace
  \/ \E p \in ServerProcs : raceReadState(p) /\ UNCHANGED besideRace
  \/ \E p \in ServerProcs : raceLoad(p) /\ UNCHANGED besideRace
  \/ \E p \in ServerProcs : raceWriteDetail(p) /\ UNCHANGED besideRace
  \/ \E p \in ServerProcs : raceUpsertIndex(p) /\ UNCHANGED besideRace
  \/ \E p \in ServerProcs : raceWriteState(p) /\ UNCHANGED besideRace
  \/ \E p \in ServerProcs : raceRender(p) /\ UNCHANGED besideRace

SpecRace == InitRace /\ [][NextRace]_vars

Init ==
  /\ detail = <<>>
  /\ index = <<>>
  /\ active = None
  /\ report = <<>>
  /\ hostFile = <<>>
  /\ evidenceFile = <<>>
  /\ clock = 0
  /\ last = NoCall
  /\ issued = <<>>
  /\ faults = 0
  /\ dir = [q \in {Target} |-> 1]
  /\ inode = <<Earlier>>
  /\ writer = [w \in Writers |-> Idle]
  /\ lock = NoLock
  /\ proc = [p \in LockProcs |-> NotCalling]
  /\ task = [p \in ServerProcs |-> Resting]

\* Every operation of one client process, with small arguments and every
\* failure.
Next ==
  \/ clock < MaxClock /\ DoCreate(FewTargets, CreateFailures, MaxEngagements)
  \/ clock < MaxClock /\ DoResume
  \/ clock < MaxClock /\ DoClose(CloseFailures)
  \/ clock < MaxClock /\ DoRemoveIndexEntry(IndexFailures)
  \/ clock < MaxClock /\ DoDiscoverHost(FewHostParams, HostFailures)
  \/ clock < MaxClock /\ DoAddFinding(FewFindingParams, SaveFailures)
  \/ clock < MaxClock /\ DoUpdateFinding(FewFindingUpdates, SaveFailures)
  \/ clock < MaxClock /\ DoAddCredential(FewCredentialParams, SaveFailures)
  \/ clock < MaxClock /\ DoLogCommand(FewCommandParams, SaveFailures)

Spec == Init /\ [][Next]_vars

\* Host discovery on one engagement.
NextHost ==
  \/ clock < HostCalls /\ detail = <<>> /\ DoCreate({<<"a">>}, NoFailure, 1)
  \/ clock < HostCalls /\ DoDiscoverHost(RichHostParams, NoFailure)

SpecHost == Init /\ [][NextHost]_vars

\* Creations that collide.  The third target has the slug a-2, the id a
\* second creation for the first target would take.
EngTargets == {<<"a">>, <<"A">>, <<"a", " ", "2">>}

NextEng ==
  \/ clock < EngCalls /\ DoCreate(EngTargets, CreateFailures, EngCap)
  \/ clock < EngCalls /\ DoRemoveIndexEntry(NoFailure)
  \/ clock < EngCalls /\ DoResume
  \/ clock < EngCalls /\ DoClose(NoFailure)

SpecEng == Init /\ [][NextEng]_vars

\* Every tool, with arguments it accepts and arguments it refuses, around
\* the creation, the close and the resumption of one engagement.
NextGate ==
  \/ clock < GateCalls /\ DoCreate({<<"a">>}, NoFailure, 1)
  \/ clock < GateCalls /\ DoResume
  \/ clock < GateCalls /\ DoClose(NoFailure)
  \/ clock < GateCalls /\ DoDiscoverHost(FewHostParams, NoFailure)
  \/ clock < GateCalls /\ DoUpdateHost(GateSectionParams, NoFailure)
  \/ clock < GateCalls /\ DoAddFinding(FewFindingParams \cup BadFindingParams, NoFailure)
  \/ clock < GateCalls /\ DoUpdateFinding(FewFindingUpdates \cup BadFindingUpdates, NoFailure)
  \/ clock < GateCalls /\ DoAddCredential(FewCredentialParams, NoFailure)
  \/ clock < GateCalls /\ DoLogCommand(FewCommandParams, NoFailure)
  \/ clock < GateCalls /\ DoAddTodo(FewTodoParams, NoFailure)
  \/ clock < GateCalls /\ DoCompleteTodo(FewTodoIds, NoFailure)
  \/ clock < GateCalls /\ DoSaveEvidence(FewEvidenceParams, NoFailure)
  \/ clock < GateCalls /\ DoReadNotes(FewReadParams)

SpecGate == Init /\ [][NextGate]_vars

\* Appends to the sections of a host, between discoveries of the host.
NextSection ==
  \/ clock < SectionCalls /\ detail = <<>> /\ DoCreate({<<"a">>}, NoFailure, 1)
  \/ clock < SectionCalls /\ DoDiscoverHost(FewHostParams, NoFailure)
  \/ clock < SectionCalls /\ DoUpdateHost(FewSectionParams, NoFailure)

SpecSection == Init /\ [][NextSection]_vars

\* Evidence saved on two engagements, with calls cut short.
NextEvidence ==
  \/ clock < EvidenceCalls /\ DoCreate({<<"a">>}, NoFailure, 2)
  \/ clock < EvidenceCalls /\ DoSaveEvidence(ManyEvidenceParams, EvidenceFailures)

SpecEvidence == Init /\ [][NextEvidence]_vars

\* The narrative of two engagements that are created, closed, resumed and
\* dropped from the index, with calls cut short.
NextNarrative ==
  \/ clock < NarrativeCalls /\ DoCreate({<<"a">>}, CreateFailures, 2)
  \/ clock < NarrativeCalls /\ DoResume
  \/ clock < NarrativeCalls /\ DoClose(NoFailure)
  \/ clock < NarrativeCalls /\ DoRemoveIndexEntry(NoFailure)
  \/ clock < NarrativeCalls /\ DoUpdateAttackPath(FewStepParams, SaveFailures)
  \/ clock < NarrativeCalls /\ DoUpdateExecutiveSummary(FewSummaryParams, SaveFailures)

SpecNarrative == Init /\ [][NextNarrative]_vars

\* Every call that saves a record, on one engagement, with calls cut short
\* at each of their steps.
NextSave ==
  \/ clock < SaveCalls /\ DoCreate({<<"a">>}, CreateFailures, 1)
  \/ clock < SaveCalls /\ DoClose(CloseFailures)
  \/ clock < SaveCalls /\ DoDiscoverHost(FewHostParams, HostFailures)
  \/ clock < SaveCalls /\ DoUpdateHost(FewSectionParams, HostFailures)
  \/ clock < SaveCalls /\ DoAddFinding(FewFindingParams, SaveFailures)
  \/ clock < SaveCalls /\ DoUpdateFinding(FewFindingUpdates, SaveFailures)
  \/ clock < SaveCalls /\ DoAddCredential(FewCredentialParams, SaveFailures)
  \/ clock < SaveCalls /\ DoLogCommand(FewCommandParams, SaveFailures)
  \/ clock < SaveCalls /\ DoLogDeadEnd(FewDeadEndParams, SaveFailures)
  \/ clock < SaveCalls /\ DoAddTodo(FewTodoParams, SaveFailures)
  \/ clock < SaveCalls /\ DoCompleteTodo(FewTodoIds, SaveFailures)
  \/ clock < SaveCalls /\ DoUpdateAttackPath(FewStepParams, SaveFailures)
  \/ clock < SaveCalls /\ DoUpdateExecutiveSummary(FewSummaryParams, SaveFailures)
  \/ clock < SaveCalls /\ DoSaveEvidence(FewEvidenceParams, EvidenceFailures)

SpecSave == Init /\ [][NextSave]_vars

\* Findings, credentials, todos and commands added to one engagement in any
\* order, with calls cut short.
NextIds ==
  \/ clock < IdCalls /\ detail = <<>> /\ DoCreate({<<"a">>}, NoFailure, 1)
  \/ clock < IdCalls /\ DoAddFinding(FewFindingParams, SaveFailures)
  \/ clock < IdCalls /\ DoAddCredential(FewCredentialParams, SaveFailures)
  \/ clock < IdCalls /\ DoAddTodo(FewTodoParams, SaveFailures)
  \/ clock < IdCalls /\ DoLogCommand(FewCommandParams, SaveFailures)

SpecIds == Init /\ [][NextIds]_vars

\* Targets of every length around the cut: an opening, a run of letters, a
\* separator and an ending.
SlugTargets ==
  { open \o [i \in 1..k |-> "a"] \o sep \o end :
      open \in {<<>>, <<" ">>, <<"-">>, <<"A">>},
      k \in {0, 1} \cup ((SlugMax - 3)..SlugMax),
      sep \in {<<>>, <<" ">>, <<"_", "!">>, <<"-">>},
      end \in {<<>>, <<"b">>, <<"B", "2">>, <<"!">>} }

\* One creation, for any of the targets.
NextSlug ==
  \/ detail = <<>> /\ DoCreate(SlugTargets, NoFailure, 1)

SpecSlug == Init /\ [][NextSlug]_vars

\* Findings added and updated on one engagement.
NextFinding ==
  \/ clock < FindingCalls /\ detail = <<>> /\ DoCreate({<<"a">>}, NoFailure, 1)
  \/ clock < FindingCalls /\ DoAddFinding(CvssFindingParams, NoFailure)
  \/ clock < FindingCalls /\ DoUpdateFinding(ManyFindingUpdates, NoFailure)

SpecFinding == Init /\ [][NextFinding]_vars

\* Two engagements with todos, closed and resumed.
NextResume ==
  \/ clock < ResumeCalls /\ DoCreate({<<"a">>}, NoFailure, 2)
  \/ clock < ResumeCalls /\ DoResume
  \/ clock < ResumeCalls /\ DoClose(NoFailure)
  \/ clock < ResumeCalls /\ DoAddTodo(FewTodoParams, NoFailure)
  \/ clock < ResumeCalls /\ DoCompleteTodo(FewTodoIds, NoFailure)

SpecResume == Init /\ [][NextResume]_vars

\* Concurrent calls of writeJSON / writeFileAtomic on one path.
NextFS ==
  \/ \E w \in Writers : writeFileOpen(w)
  \/ \E w \in Writers : writeFileWrite(w)
  \/ \E w \in Writers : rename(w)
  \/ \E p \in Processes : crash(p)

SpecLock == Init /\ [][NextLock]_vars

\* A live process goes on with its call, and time passes.
LockFairness ==
  /\ \A p \in LockProcs :
       /\ WF_vars(lockAttempt(p) /\ UNCHANGED <<aboveLock, fsVars>>)
       /\ WF_vars(csRead(p) /\ UNCHANGED <<aboveLock, fsVars>>)
       /\ WF_vars((\E ok \in BOOLEAN : csWrite(p, ok)) /\ UNCHANGED <<aboveLock, fsVars>>)
       /\ WF_vars(releaseLock(p) /\ UNCHANGED <<aboveLock, fsVars>>)
  /\ WF_vars(tick /\ UNCHANGED <<aboveLock, fsVars>>)

SpecLockFair == Init /\ [][NextLock]_vars /\ LockFairness

\* The entry of an engagement that was created and closed earlier.
ClosedEntryOf(p) ==
  buildIndexEntry([makeEmptyMetadata(IdOf(p), IdOf(p), Scope, "") EXCEPT !.status = "completed"])

\* The index files the calls may find: earlier engagements, one entry each,
\* in any order.
PriorIndexes ==
  { idx \in UNION { [1..n -> { ClosedEntryOf(p) : p \in LockProcs }] : n \in 0..Cardinality(LockProcs) } :
      \A i, j \in 1..Len(idx) : idx[i].id = idx[j].id => i = j }

InitIndex ==
  /\ detail = <<>> /\ active = None /\ report = <<>>
  /\ hostFile = <<>> /\ evidenceFile = <<>> /\ clock = 0 /\ last = NoCall /\ issued = <<>>
  /\ faults = 0
  /\ index \in PriorIndexes
  /\ dir = <<>> /\ inode = <<>>
  /\ writer = [w \in Writers |-> Idle]
  /\ lock = NoLock
  /\ proc = [p \in LockProcs |-> NotCalling]
  /\ task = [p \in ServerProcs |-> Resting]

\* Index calls of live processes on an index that has entries already.
NextIndex ==
  \/ \E p \in LockProcs, op \in {"update", "remove"} :
       beginCall(p, op) /\ UNCHANGED <<aboveLock, fsVars>>
  \/ \E p \in LockProcs : lockAttempt(p) /\ UNCHANGED <<aboveLock, fsVars>>
  \/ \E p \in LockProcs : csRead(p) /\ UNCHANGED <<aboveLock, fsVars>>
  \/ \E p \in LockProcs, ok \in BOOLEAN : csWrite(p, ok) /\ UNCHANGED <<aboveLock, fsVars>>
  \/ \E p \in LockProcs : releaseLock(p) /\ UNCHANGED <<aboveLock, fsVars>>

SpecIndex == InitIndex /\ [][NextIndex]_vars

\* The path holds an earlier content, or does not exist yet.
InitFS ==
  /\ detail = <<>> /\ index = <<>> /\ active = None /\ report = <<>>
  /\ hostFile = <<>> /\ evidenceFile = <<>> /\ clock = 0 /\ last = NoCall /\ issued = <<>>
  /\ faults = 0
  /\ \/ dir = [q \in {Target} |-> 1] /\ inode = <<Earlier>>
     \/ dir = <<>> /\ inode = <<>>
  /\ writer = [w \in Writers |-> Idle]
  /\ lock = NoLock
  /\ proc = [p \in LockProcs |-> NotCalling]
  /\ task = [p \in ServerProcs |-> Resting]

SpecFS == InitFS /\ [][NextFS]_vars

\* ============================================================== claims
SamePair(a, b) == a.port = b.port /\ a.proto = b.proto

\* The host record with address ip in engagement e of the detail files d.
HostAt(d, e, ip) == d[e].hosts[FindHost(d[e].hosts, ip)]

\* This step is a discoverHost call that found its host recorded.
Rediscovery ==
  /\ clock' # clock
  /\ last'.op = "discoverHost"
  /\ "existed" \in DOMAIN last'
  /\ last'.existed

\* The values of field f that the call p supplied, non-empty, for the
\* (port, proto) pair of the service svc.
SuppliedFor(p, svc, f) ==
  IF p.services = <<>> THEN {}
  ELSE { p.services[1][k][f][1] :
           k \in { n \in 1..Len(p.services[1]) :
                     /\ SamePair(p.services[1][n], svc)
                     /\ Truthy(p.services[1][n][f]) } }

\* C1: on a re-discovery, the name, version and notes of a recorded service
\* change only to a non-empty value the caller supplied for that service;
\* a field the caller omitted or left empty keeps its recorded value.
C1_OverwriteOnlySupplied ==
  [][ \A p \in RichHostParams :
        (Rediscovery /\ discoverHost(p, "none")) =>
          LET h == HostAt(detail, last'.eng, p.ip)
              h2 == HostAt(detail', last'.eng, p.ip)
          IN  \A i \in 1..Len(h.services) :
                \A f \in {"service", "version", "notes"} :
                  \/ h2.services[i][f] = h.services[i][f]
                  \/ h2.services[i][f] \in SuppliedFor(p, h.services[i], f) ]_vars

\* C2: no host holds two services with the same (port, proto) pair.
C2_NoDuplicatePairs ==
  \A e \in DOMAIN detail :
    \A k \in 1..Len(detail[e].hosts) :
      LET svcs == detail[e].hosts[k].services
      IN  \A i, j \in 1..Len(svcs) : i # j => ~SamePair(svcs[i], svcs[j])

\* C3: a re-discovery removes no recorded service: every (port, proto) pair
\* recorded before the call is recorded after it, and the service count of
\* the host does not decrease.
C3_NoServiceRemoved ==
  [][ Rediscovery =>
        LET h == HostAt(detail, last'.eng, last'.ip)
            h2 == HostAt(detail', last'.eng, last'.ip)
        IN  /\ \A i \in 1..Len(h.services) :
                 \E j \in 1..Len(h2.services) : SamePair(h.services[i], h2.services[j])
            /\ Len(h2.services) >= Len(h.services) ]_vars

\* A host with two recorded services has been re-discovered by a call that
\* listed one of them and nothing else, and it still has the two.
C3_Witness ==
  /\ last.op = "discoverHost" /\ last.ok /\ last.existed
  /\ last.before = 2
  /\ last.listed = 1
  /\ Len(HostAt(detail, last.eng, last.ip).services) = 2

\* C4: a re-discovery leaves a non-empty hostname (OS) as it is, and stores
\* a hostname (OS) only when the recorded one is empty and the caller
\* supplied the stored value.
C4_FilledOnlyIfEmpty ==
  [][ Rediscovery =>
        LET h == HostAt(detail, last'.eng, last'.ip)
            h2 == HostAt(detail', last'.eng, last'.ip)
        IN  /\ h.hostname # "" => h2.hostname = h.hostname
            /\ h.os # "" => h2.os = h.os
            /\ h2.hostname # h.hostname =>
                 h.hostname = "" /\ last'.hostname = Some(h2.hostname)
            /\ h2.os # h.os => h.os = "" /\ last'.os = Some(h2.os) ]_vars

\* A host with a recorded hostname has been re-discovered by a call that
\* supplied another hostname.
C4_Witness ==
  /\ last.op = "discoverHost" /\ last.ok /\ last.existed
  /\ Truthy(last.hostname)
  /\ HostAt(detail, last.eng, last.ip).hostname \notin {"", last.hostname[1]}

\* C5: on one engagement record, the k-th successful addFinding returns
\* F-k padded to width 3, whatever calls were made in between.
C5_SequentialIds ==
  \A e \in DOMAIN issued :
    \A k \in 1..Len(issued[e]) : issued[e][k] = FormatId(FPrefix, k)

\* The operations that write a detail record.
MutatingOps ==
  { "createEngagement", "closeEngagement", "discoverHost", "addFinding",
    "updateFinding", "addCredential", "logCommand" }

\* The positions of the index entries with the id `id`.
EntriesOf(id) == { i \in 1..Len(index) : index[i].id = id }

\* C6: after a successful mutating operation the index holds an entry for
\* the mutated engagement, and it is the projection of the persisted
\* record: same id, target, status, created_at and updated_at, and counts
\* equal to the sizes of the record's collections.
C6_IndexMatchesDetail ==
  (last.ok /\ last.op \in MutatingOps) =>
    LET meta == detail[last.eng]
    IN  /\ EntriesOf(last.eng) # {}
        /\ \A i \in EntriesOf(last.eng) :
             index[i] =
               [ id |-> meta.id, target |-> meta.target, status |-> meta.status,
                 created_at |-> meta.created_at, updated_at |-> meta.updated_at,
                 finding_count |-> Len(meta.findings),
                 host_count |-> Len(meta.hosts),
                 credential_count |-> Len(meta.credentials),
                 command_count |-> Len(meta.command_log) ]

\* A second finding has been added to a record created earlier: the entry
\* was written at creation and rewritten twice since.
C6_Witness ==
  /\ last.ok /\ last.op = "addFinding"
  /\ Len(detail[last.eng].findings) = 2
  /\ \E i \in EntriesOf(last.eng) :
       index[i].finding_count = 2 /\ index[i].updated_at > index[i].created_at

\* This step is a createEngagement call that returned a record.
Returned == clock' # clock /\ last'.op = "createEngagement" /\ last'.ok

\* `${id}-${suffix}`
Suffixed(id, n) == id \o <<"-">> \o ToDigits(n)

C8_CreateNeverOverwrites ==
  [][ ( /\ clock' # clock
        /\ last'.op = "createEngagement"
        /\ last'.err # "detail" ) => last'.eng \notin DOMAIN detail ]_vars

\* The tools that save through saveMetadataAndRender.
SavingOps ==
  {"discoverHost", "addFinding", "updateFinding", "addCredential", "logCommand"}

\* C9: a sub-entity call in which saveMetadataAndRender failed, at the
\* detail write, the index upsert or the report render, leaves the persisted
\* detail records as they were.
C9_FailedSaveNotApplied ==
  [][ ( /\ clock' # clock
        /\ last'.op \in SavingOps
        /\ last'.err \in {"detail", "index", "render"} ) => detail' = detail ]_vars

\* C10: at every instant the path holds a complete content: the earlier
\* one, or the whole content of one of the calls (or it does not exist yet).
C10_NeverPartial ==
  readFile \in {Earlier, ENOENT} \cup {Content(w) : w \in Writers}

\* This step is the rename of the call w onto the path.
Renamed(w) == writer[w].pc = "rename" /\ writer'[w].pc = "done"

\* C11: a call that has not renamed its temp file has left the path as it
\* was: every step that is not a rename, the crash of a process after its
\* temp write among them, leaves the path with exactly the content it held,
\* or absent.
C11_UntouchedBeforeRename ==
  [][ (\A w \in Writers : ~Renamed(w)) => readFile' = readFile ]_vars

\* The calls that upserted their entry and returned.
Updated == { p \in LockProcs : proc[p].op = "update" /\ proc[p].pc = "done" }

\* C12: when the updateIndexEntry calls of two processes, for different ids,
\* have both succeeded, the index holds both entries.
C12_BothEntriesKept ==
  \A p, q \in Updated :
    p # q => /\ \E i \in EntriesOf(IdOf(p)) : index[i] = EntryOf(p)
             /\ \E i \in EntriesOf(IdOf(q)) : index[i] = EntryOf(q)

\* Two updates have succeeded, one of them after it had to wait for the
\* lock, and the index has the two entries.
C12_Witness ==
  \E p, q \in Updated :
    /\ p # q /\ proc[q].waited
    /\ InIndex(index, IdOf(p)) /\ InIndex(index, IdOf(q))

\* The live processes inside the read-modify-write of the index.
InCritical == { p \in LockProcs : proc[p].pc \in {"read", "write"} }

\* C13: at most one live process is inside the index critical section, and
\* a process inside it holds the lock.
C13_MutualExclusion ==
  /\ Cardinality(InCritical) <= 1
  /\ \A p \in InCritical : lock # NoLock /\ lock.holder = p

\* One process is inside the critical section while the two others have
\* each tried for the lock and failed.
C13_Witness ==
  \E p \in InCritical :
    \A q \in LockProcs \ {p} : proc[q].pc = "lock" /\ proc[q].attempts > 0

\* C14: once a withLock call has finished, by return, by the error of its
\* critical section or by giving up, the lock is not held in its name; the
\* call ends with an error exactly when its critical section threw.
C14_ReleasedOnEveryExit ==
  \A p \in LockProcs :
    /\ proc[p].pc \in {"done", "failed", "ELOCKED"} =>
         ~(lock # NoLock /\ lock.holder = p)
    /\ proc[p].pc = "done" => ~proc[p].err
    /\ proc[p].pc = "failed" => proc[p].err

\* A call whose critical section threw has ended with that error, and the
\* lock is free.
C14_Witness ==
  \E p \in LockProcs : proc[p].pc = "failed" /\ proc[p].err /\ lock = NoLock

\* C15: a call makes at most retries + 1 attempts; a call that gave up made
\* them all, never ran its critical section and left the index without its
\* entry.
C15_BoundedAttempts ==
  \A p \in LockProcs :
    /\ proc[p].attempts <= retries + 1
    /\ proc[p].pc = "ELOCKED" =>
         /\ proc[p].attempts = retries + 1
         /\ proc[p].how = ""
         /\ ~InIndex(index, IdOf(p))

\* An update has given up while another process was inside the critical
\* section.
C15_Witness ==
  \E p \in LockProcs :
    /\ proc[p].pc = "ELOCKED" /\ proc[p].op = "update"
    /\ InCritical # {}

\* The calls that took over a stale lock and came out of withLock.
Recovered ==
  { q \in LockProcs : proc[q].how = "stale" /\ proc[q].pc \in {"done", "failed"} }

\* The lock of a dead holder is past the staleness interval and some call
\* is trying for the lock.
StaleAndWanted ==
  /\ DeadHeld
  /\ lock.age * TickMs > stale
  /\ \E p \in LockProcs : proc[p].pc = "lock"

\* C16: when the lock of a dead holder has passed the staleness interval
\* and the call of another process is trying for the lock, a call takes the
\* lock over, runs its critical section and leaves withLock.
C16_StaleLockRecovered == StaleAndWanted ~> (Recovered # {})

\* An update has taken over the stale lock of a dead holder and returned.
C16_Witness ==
  \E q \in Recovered : proc[q].pc = "done" /\ proc[q].op = "update"
                       /\ InIndex(index, IdOf(q))

\* The operations that start with requireActiveEngagement.
RequiringOps ==
  { "closeEngagement", "discoverHost", "addFinding", "updateFinding",
    "addCredential", "logCommand" }

\* The status a close was asked for: completed when none was given.
Requested(call) == IF call.status = <<>> THEN "completed" ELSE call.status[1]

\* A close that returned: the record carries the requested status and no
\* engagement is active.
ClosedAsRequested ==
  (clock' # clock /\ last'.op = "closeEngagement" /\ last'.ok)
    => /\ detail'[last'.eng].status = Requested(last')
       /\ active' = None

\* While no engagement is active, a call that requires one is refused.
RefusedWhileNoneActive ==
  (clock' # clock /\ active = None /\ last'.op \in RequiringOps)
    => ~last'.ok /\ last'.err = "no_active_engagement"

\* Some record carries a closing status: a close has been persisted.
SomeClosed == \E e \in DOMAIN detail : detail[e].status # "active"

\* After a close, an engagement becomes active only in a create or a resume
\* that succeeds.
ActivatedOnlyBySuccess ==
  (SomeClosed /\ active = None /\ active' # None)
    => last'.op \in {"createEngagement", "resumeEngagement"} /\ last'.ok

\* C17: a close that completes leaves the record with the requested status
\* (completed by default) and no engagement active; from then on every call
\* that requires an active engagement fails with no_active_engagement,
\* until a create or a resume succeeds.
C17_ClosedUntilReopened ==
  [][ClosedAsRequested /\ RefusedWhileNoneActive /\ ActivatedOnlyBySuccess]_vars

\* The part of C17 that does not depend on how an engagement is activated.
C17_ClosedAndRefused == [][ClosedAsRequested /\ RefusedWhileNoneActive]_vars

\* The tools other than create, list and resume.
GatedOps ==
  { "closeEngagement", "discoverHost", "updateHost", "addFinding",
    "updateFinding", "addCredential", "logCommand", "addTodo", "completeTodo",
    "saveEvidence", "readNotes" }

\* C18: while no engagement is active, every call of a tool other than
\* create, list and resume fails with no_active_engagement, whatever its
\* arguments.
C18_GateComesFirst ==
  [][ (clock' # clock /\ active = None /\ last'.op \in GatedOps)
        => ~last'.ok /\ last'.err = "no_active_engagement" ]_vars

\* The same for the tools that start with loadActiveMetadata or
\* requireActiveEngagement: all but saveEvidence and readNotes.
C18_LoadingToolsGated ==
  [][ ( /\ clock' # clock /\ active = None
        /\ last'.op \in GatedOps \ {"saveEvidence", "readNotes"} )
        => ~last'.ok /\ last'.err = "no_active_engagement" ]_vars

\* The calls of resumeEngagement for an id that has a detail record.
ResumedKnown ==
  clock' # clock /\ last'.op = "resumeEngagement" /\ last'.eng \in DOMAIN detail

\* C19: resumeEngagement(id) for an id that has a detail record makes id
\* the active engagement whatever was active, leaves every detail record
\* (the status of the resumed one included) and the index as they were, and
\* returns as open_todos the number of pending todos of the record.
C19_ResumeOnlyActivates ==
  [][ ResumedKnown =>
        /\ last'.ok
        /\ active' = Some(last'.eng)
        /\ detail' = detail
        /\ index' = index
        /\ last'.open_todos =
             Cardinality({ i \in 1..Len(detail[last'.eng].todos) :
                             detail[last'.eng].todos[i].status = "pending" }) ]_vars

\* A closed record with a pending and a completed todo has been resumed
\* while the other engagement was active.
C19_Witness ==
  /\ last.op = "resumeEngagement" /\ last.ok
  /\ active = Some(last.eng)
  /\ last.was # None /\ last.was # active
  /\ detail[last.eng].status \in {"completed", "paused"}
  /\ last.open_todos = 1
  /\ Len(detail[last.eng].todos) = 2

\* The calls of resumeEngagement for an id that has no detail record.
ResumedUnknown ==
  clock' # clock /\ last'.op = "resumeEngagement" /\ last'.eng \notin DOMAIN detail

\* C20: resumeEngagement(id) for an id that has no detail record fails
\* with engagement_not_found and leaves the active engagement id, the index
\* and every detail record as they were.
C20_ResumeUnknownRefused ==
  [][ ResumedUnknown =>
        /\ ~last'.ok /\ last'.err = "engagement_not_found"
        /\ active' = active
        /\ index' = index
        /\ detail' = detail ]_vars

\* The resumption of an unknown id has been refused while an engagement
\* was active.
C20_Witness ==
  /\ last.op = "resumeEngagement" /\ last.err = "engagement_not_found"
  /\ last.eng \notin DOMAIN detail
  /\ active # None /\ index # <<>>

\* A call of addFinding or updateFinding that got as far as its CVSS check:
\* the active record was loaded and, for an update, the finding was found.
ReachedCvssCheck ==
  /\ clock' # clock
  /\ last'.op \in {"addFinding", "updateFinding"}
  /\ active # None /\ active[1] \in DOMAIN detail
  /\ last'.op = "updateFinding" =>
       \E i \in 1..Len(detail[active[1]].findings) :
          detail[active[1]].findings[i].id = last'.params.id

\* The score is supplied and lies below 0 or above 10.
OutOfRange(cvss) == cvss # None /\ cvss[1] \notin 0..100

\* C21: addFinding and updateFinding fail with invalid_cvss exactly when the
\* supplied CVSS is below 0 or above 10; 0 and 10 are accepted, -0.1 and
\* 10.1 are refused, and an omitted CVSS is never refused.
C21_CvssRange ==
  [][ /\ ReachedCvssCheck =>
           (last'.err = "invalid_cvss" <=> OutOfRange(last'.params.cvss))
      /\ (clock' # clock /\ last'.err = "invalid_cvss") =>
           OutOfRange(last'.params.cvss) ]_vars

\* An update with the score 10.1 has been refused on a finding that was
\* accepted with a boundary score.
C21_Witness ==
  /\ last.op = "updateFinding" /\ last.err = "invalid_cvss"
  /\ last.params.cvss = Some(101)
  /\ \E i \in 1..Len(detail[last.eng].findings) :
        /\ detail[last.eng].findings[i].id = last.params.id
        /\ detail[last.eng].findings[i].cvss \in {Some(0), Some(100)}

\* An append that succeeded on a host of the active record.
Appended == clock' # clock /\ last'.op = "updateHost" /\ last'.ok

\* C22: a successful updateHost leaves the section holding its earlier
\* content, a blank line and the new piece (the new piece alone when the
\* section was empty) and leaves the other five sections as they were; no
\* other operation changes a section of a recorded host.
C22_SectionsRetentive ==
  [][ \A e \in DOMAIN detail : \A k \in 1..Len(detail[e].hosts) :
        LET old == detail[e].hosts[k]
            new == detail'[e].hosts[k]
            hit == /\ Appended /\ last'.eng = e
                   /\ last'.params.ip = old.ip
        IN  /\ e \in DOMAIN detail' /\ k <= Len(detail'[e].hosts)
            /\ new.ip = old.ip
            /\ \A sec \in HOST_SECTIONS :
                  IF hit /\ sec = last'.params.section
                  THEN new[sec] = IF old[sec] = "" THEN last'.params.content
                                  ELSE old[sec] \o "\n\n" \o last'.params.content
                  ELSE new[sec] = old[sec] ]_vars

\* Two pieces have been appended to one section, in call order, and another
\* section holds a piece of its own.
C22_Witness ==
  /\ last.op = "updateHost" /\ last.ok
  /\ \E k \in 1..Len(detail[last.eng].hosts) :
        /\ detail[last.eng].hosts[k].enumeration = "c1\n\nc2"
        /\ detail[last.eng].hosts[k].credentials = "c2"

\* An optional text argument that is supplied and not empty.
Given(v) == v # None /\ v[1] # ""

\* C23: a successful updateFinding leaves the finding's notes equal to the
\* earlier notes followed by the supplied notes (joined by a blank line; the
\* supplied notes alone when there were none), overwrites the severity, the
\* CVSS, the status and the evidence file with the supplied value, and keeps
\* every field that was not supplied (an empty text counts as not
\* supplied); the other findings are untouched.
C23_NotesAppended ==
  [][ (clock' # clock /\ last'.op = "updateFinding" /\ last'.ok) =>
        LET p == last'.params
            olds == detail[last'.eng].findings
            news == detail'[last'.eng].findings
        IN  /\ Len(news) = Len(olds)
            /\ \A i \in 1..Len(olds) :
                  LET f == olds[i]
                      g == news[i]
                  IN  IF f.id # p.id THEN g = f
                      ELSE
                        /\ g.id = f.id /\ g.host = f.host
                        /\ g.vulnerability = f.vulnerability
                        /\ g.created_at = f.created_at
                        /\ g.notes = IF Given(p.notes)
                                     THEN (IF f.notes = "" THEN p.notes[1]
                                           ELSE f.notes \o "\n\n" \o p.notes[1])
                                     ELSE f.notes
                        /\ g.severity = IF Given(p.severity) THEN p.severity[1]
                                        ELSE f.severity
                        /\ g.cvss = IF p.cvss # None THEN p.cvss ELSE f.cvss
                        /\ g.status = IF Given(p.status) THEN p.status[1]
                                      ELSE f.status
                        /\ g.evidence_file = IF Given(p.evidence_file)
                                             THEN p.evidence_file
                                             ELSE f.evidence_file ]_vars

\* The notes x and then y have been appended to a finding added with notes.
C23_Witness ==
  /\ last.op = "updateFinding" /\ last.ok /\ last.params.notes = Some("y")
  /\ \E i \in 1..Len(detail[last.eng].findings) :
        /\ detail[last.eng].findings[i].id = last.params.id
        /\ detail[last.eng].findings[i].notes = "n0\n\nx\n\ny"

\* A call of updateHost, updateFinding or completeTodo that loaded the
\* active record and names an entity the record does not hold.
NamesUnknown ==
  /\ clock' # clock
  /\ active # None /\ active[1] \in DOMAIN detail
  /\ LET meta == detail[active[1]]
     IN  \/ /\ last'.op = "updateHost"
            /\ \A i \in 1..Len(meta.hosts) : meta.hosts[i].ip # last'.params.ip
         \/ /\ last'.op = "updateFinding"
            /\ \A i \in 1..Len(meta.findings) : meta.findings[i].id # last'.params.id
         \/ /\ last'.op = "completeTodo"
            /\ \A i \in 1..Len(meta.todos) : meta.todos[i].id # last'.params.id

\* The code each of the three tools raises for an unknown entity.
NotFoundCode(op) ==
  CASE op = "updateHost" -> "host_not_found"
    [] op = "updateFinding" -> "finding_not_found"
    [] op = "completeTodo" -> "todo_not_found"

\* C24: updateHost on an unknown IP, updateFinding on an unknown finding id
\* and completeTodo on an unknown todo id fail with host_not_found,
\* finding_not_found and todo_not_found, and leave the detail records, the
\* index and the active engagement as they were.
C24_UnknownEntityRefused ==
  [][ NamesUnknown =>
        /\ ~last'.ok /\ last'.err = NotFoundCode(last'.op)
        /\ detail' = detail
        /\ index' = index
        /\ active' = active ]_vars

\* The completion of an unknown todo has been refused on a record that
\* holds a host, a finding and a todo.
C24_Witness ==
  /\ last.op = "completeTodo" /\ last.err = "todo_not_found"
  /\ active = Some(last.eng)
  /\ detail[last.eng].hosts # <<>>
  /\ detail[last.eng].findings # <<>>
  /\ detail[last.eng].todos # <<>>

\* The evidence files a run may name.
EvidenceNames == {<<"a">>, <<"b">>}

\* The positions of the entries of record e that name the file.
EvidenceAt(d, e, name) ==
  { i \in 1..Len(d[e].evidence_index) : d[e].evidence_index[i].filename = name }

\* What is stored for the file in engagement e: its content, its entries.
StoredFor(d, files, e, name) ==
  [ content |-> IF <<e, name>> \in DOMAIN files THEN <<files[<<e, name>>]>> ELSE <<>>,
    entries |-> { d[e].evidence_index[i] : i \in EvidenceAt(d, e, name) } ]

\* The step is a saveEvidence of the file on engagement e that returned.
SavedNow(e, name) ==
  /\ clock' # clock /\ last'.op = "saveEvidence" /\ last'.ok
  /\ last'.eng = e /\ last'.params.filename = name

\* A save that returned reports overwritten exactly when the file existed
\* in the active engagement, and leaves its content and its entry stored.
SaveStoresLatest(e, name) ==
  SavedNow(e, name) =>
    /\ active = Some(e)
    /\ last'.overwritten <=> <<e, name>> \in DOMAIN evidenceFile
    /\ StoredFor(detail', evidenceFile', e, name) =
         [ content |-> <<last'.params.content>>,
           entries |-> { [ filename |-> name,
                           description |-> IF last'.params.description = None
                                           THEN name
                                           ELSE last'.params.description[1],
                           related_finding_id |-> None,
                           created_at |-> clock ] } ]

\* Whatever is not a save of the file that returned leaves the file and its
\* entry as the latest save left them.
OnlySaveChanges(e, name) ==
  (e \in DOMAIN detail /\ ~SavedNow(e, name)) =>
    StoredFor(detail', evidenceFile', e, name) = StoredFor(detail, evidenceFile, e, name)

\* A record never holds two entries for one filename.
OneEntryPerName(e, name) == Cardinality(EvidenceAt(detail', e, name)) <= 1

\* C25: saveEvidence reports overwritten exactly when a file of that name
\* was stored in the active engagement; a record holds at most one entry
\* per filename, and the entry and the stored content of a file are those
\* of the latest save of that filename.
C25_LatestEvidenceKept ==
  [][ \A e \in DOMAIN detail', name \in EvidenceNames :
        /\ SaveStoresLatest(e, name)
        /\ OnlySaveChanges(e, name)
        /\ OneEntryPerName(e, name) ]_vars

\* The same in the runs in which no call was cut short.
C25_LatestKeptWithoutFaults ==
  [][ faults' = 0 =>
        \A e \in DOMAIN detail', name \in EvidenceNames :
          /\ SaveStoresLatest(e, name)
          /\ OnlySaveChanges(e, name)
          /\ OneEntryPerName(e, name) ]_vars

\* The step is a creation that wrote the record of engagement e anew.
CreatedAnew(e) ==
  clock' # clock /\ last'.op = "createEngagement" /\ last'.eng = e

\* s is an initial part of t.
IsPrefix(s, t) == Len(s) <= Len(t) /\ \A i \in 1..Len(s) : t[i] = s[i]

C27_TodoOneWay ==
  [][ \A e \in DOMAIN detail' :
        LET news == detail'[e].todos
        IN  /\ \A i \in 1..Len(news) :
                  /\ news[i].status \in {"pending", "completed"}
                  /\ news[i].completed_at = None <=> news[i].status = "pending"
            /\ (e \in DOMAIN detail /\ ~CreatedAnew(e)) =>
                  LET olds == detail[e].todos
                  IN  /\ Len(olds) <= Len(news)
                      /\ \A i \in 1..Len(olds) :
                            /\ news[i].id = olds[i].id
                            /\ olds[i].status = "completed" =>
                                  news[i].status = "completed"
                      /\ \A i \in (Len(olds) + 1)..Len(news) :
                            news[i].status = "pending" ]_vars

\* A record that was closed and resumed holds a completed todo and, added
\* after it was completed, a pending one.
C27_Witness ==
  /\ last.op = "addTodo" /\ last.ok
  /\ detail[last.eng].status # "active"
  /\ Len(detail[last.eng].todos) = 2
  /\ detail[last.eng].todos[1].status = "completed"
  /\ detail[last.eng].todos[1].completed_at # None
  /\ detail[last.eng].todos[2].status = "pending"

Rewrites(p) ==
  proc[p].pc = "write" /\ proc'[p].pc = "release" /\ ~proc'[p].err

\* The positions of the entries of other engagements than id.
OthersThan(id) == { i \in 1..Len(index) : index[i].id # id }

\* No two entries of the index have the same id.
OneEntryPerId == \A i, j \in 1..Len(index) : index[i].id = index[j].id => i = j

\* C29: whatever updateIndexEntry and removeIndexEntry calls the processes
\* make, the index never holds two entries with the same engagement id; the
\* rewrite of an upsert puts the new entry at the position of the entry
\* with its id and leaves every other position as it was, or adds the new
\* entry at the end when no entry has its id; the rewrite of a remove drops
\* the entries with the given id and keeps the others in their order.
C29_IndexOneEntryPerId ==
  /\ []OneEntryPerId
  /\ [][ \A p \in LockProcs : Rewrites(p) =>
           IF proc[p].op = "update"
           THEN IF EntriesOf(IdOf(p)) # {}
                THEN /\ Len(index') = Len(index)
                     /\ \A i \in 1..Len(index) :
                          index'[i] = IF i \in EntriesOf(IdOf(p)) THEN EntryOf(p) ELSE index[i]
                ELSE index' = Append(index, EntryOf(p))
           ELSE /\ Len(index') = Cardinality(OthersThan(IdOf(p)))
                /\ \A i \in OthersThan(IdOf(p)) :
                     index'[Cardinality({ j \in OthersThan(IdOf(p)) : j <= i })] = index[i] ]_vars

\* An upsert has replaced, where it was, a closed entry that had an entry
\* before it, and another upsert has added an entry at the end.
C29_Witness ==
  /\ Len(index) = 3
  /\ \E p, q, r \in LockProcs :
       /\ p # q /\ q # r /\ p # r
       /\ index = <<ClosedEntryOf(p), EntryOf(q), EntryOf(r)>>
       /\ proc[q].pc = "done" /\ proc[q].op = "update"
       /\ proc[r].pc = "done" /\ proc[r].op = "update"


\* The calls that save a record: create, close and the sub-entity tools.
PersistingOps ==
  { "createEngagement", "closeEngagement", "discoverHost", "updateHost",
    "addFinding", "updateFinding", "addCredential", "logCommand",
    "logDeadEnd", "addTodo", "completeTodo", "updateAttackPath",
    "updateExecutiveSummary", "saveEvidence" }

\* The step has written the detail record of e, stamped with the time of
\* the call.
DetailWritten(e) ==
  e \in DOMAIN detail' /\ detail' # detail /\ detail'[e].updated_at = now

\* The step has left in the index the entry of the record of e it wrote.
IndexUpserted(e) ==
  /\ DetailWritten(e)
  /\ \E i \in 1..Len(index') : index'[i] = buildIndexEntry(detail'[e])

\* C30: in every call of create, close or a sub-entity tool, complete or
\* cut short, the record that is written is the one the call loaded (the
\* active one, but for a creation); the index is touched only when the
\* detail record has been written, and the report is touched only when
\* the detail record has been written and the index holds its entry.
C30_SaveStepsInOrder ==
  [][ (clock' # clock /\ last'.op \in PersistingOps) =>
        /\ detail' # detail =>
              /\ DetailWritten(last'.eng)
              /\ last'.op # "createEngagement" => active = Some(last'.eng)
        /\ index' # index => DetailWritten(last'.eng) /\ IndexUpserted(last'.eng)
        /\ report' # report =>
              /\ IndexUpserted(last'.eng)
              /\ report'[last'.eng] = renderFindings(detail'[last'.eng]) ]_vars

\* A sub-entity call or a close was cut short at the render: the record and
\* its index entry are those of the call, the report is an older one.
C30_Witness ==
  /\ last.op \in PersistingOps \ {"createEngagement"}
  /\ ~last.ok /\ last.err = "render"
  /\ detail[last.eng].updated_at = clock - 1
  /\ \E i \in 1..Len(index) : index[i] = buildIndexEntry(detail[last.eng])
  /\ last.eng \in DOMAIN report
  /\ report[last.eng] # renderFindings(detail[last.eng])


\* The tools that add a sub-entity to the loaded record.
SubEntityOps == {"addFinding", "addCredential"}

\* The calls of p and q ran at the same time: one began while the other was
\* in flight.
Overlapped(p, q) == q \in task[p].during \/ p \in task[q].during

\* p and q have both returned from a sub-entity call on the same engagement,
\* and the calls overlapped.
BothMutated(p, q) ==
  /\ p # q /\ task[p].pc = "done" /\ task[q].pc = "done"
  /\ task[p].op \in SubEntityOps /\ task[q].op \in SubEntityOps
  /\ task[p].id = task[q].id /\ Overlapped(p, q)

\* The record holds the sub-entity the call of o added.
Carries(meta, o) ==
  IF task[o].op = "addFinding"
  THEN \E i \in 1..Len(meta.findings) : meta.findings[i].host = o
  ELSE \E i \in 1..Len(meta.credentials) : meta.credentials[i].username = o

\* C31 as stated: after two overlapping sub-entity calls of two processes on
\* one engagement, the persisted record is the whole record one of them
\* wrote, and the sub-entity of the other is not in it.
C31_OtherAlwaysAbsent ==
  \A p, q \in ServerProcs :
    BothMutated(p, q) =>
      \E w \in {p, q} : \E o \in {p, q} \ {w} :
        /\ detail[task[w].id] = task[w].meta[1]
        /\ ~Carries(detail[task[w].id], o)

\* C31, amended: the persisted record is the whole record one of the two
\* wrote, never a mixture; the sub-entity of the other is in it exactly when
\* it was in the record that writer had loaded, so it is absent whenever the
\* two had loaded the same record.
C31_LastWriterWins ==
  \A p, q \in ServerProcs :
    BothMutated(p, q) =>
      \E w \in {p, q} : \E o \in {p, q} \ {w} :
        /\ detail[task[w].id] = task[w].meta[1]
        /\ Carries(detail[task[w].id], o) <=> Carries(task[w].loaded[1], o)
        /\ task[w].loaded = task[o].loaded => ~Carries(detail[task[w].id], o)

\* Two processes have loaded the same record, each has added its finding
\* and saved, and the record on disk has one of the two findings.
C31_Witness ==
  \E p, q \in ServerProcs :
    /\ BothMutated(p, q)
    /\ task[p].op = "addFinding" /\ task[q].op = "addFinding"
    /\ task[p].loaded = task[q].loaded
    /\ detail[task[p].id] = task[p].meta[1]
    /\ Len(detail[task[p].id].findings) = 1


\* No call of the two processes is in flight.
Quiescent == \A p \in ServerProcs : ~InFlight(p)

\* Both processes have made a call that saved a record.
BothSaved == \A p \in ServerProcs : task[p].pc = "done"

\* C32: when the calls of the two processes have all returned, every index
\* entry has the counts of the persisted record of its engagement.
C32_CountsAfterInterleaving ==
  (Quiescent /\ BothSaved) =>
    \A i \in 1..Len(index) :
      LET meta == detail[index[i].id]
      IN  /\ index[i].finding_count = Len(meta.findings)
          /\ index[i].credential_count = Len(meta.credentials)
          /\ index[i].host_count = Len(meta.hosts)
          /\ index[i].command_count = Len(meta.command_log)

\* The same for runs in which the two calls did not overlap.
C32_CountsWithoutOverlap ==
  (Quiescent /\ BothSaved /\ \A p, q \in ServerProcs : ~Overlapped(p, q)) =>
    \A i \in 1..Len(index) :
      LET meta == detail[index[i].id]
      IN  /\ index[i].finding_count = Len(meta.findings)
          /\ index[i].credential_count = Len(meta.credentials)


\* p and q have both returned from a createEngagement for the same target.
BothCreated(p, q) ==
  /\ p # q /\ task[p].pc = "done" /\ task[q].pc = "done"
  /\ task[p].op = "createEngagement" /\ task[q].op = "createEngagement"
  /\ task[p].target = task[q].target

\* C33: two overlapping createEngagement calls of two processes for the
\* same target on the same date return different ids, so that neither
\* writes its record over the record of the other.
C33_ConcurrentCreatesDistinct ==
  \A p, q \in ServerProcs :
    (BothCreated(p, q) /\ Overlapped(p, q)) => task[p].id # task[q].id

\* The same for two creations of which the second began after the first had
\* returned.
C33_SuccessiveCreatesDistinct ==
  \A p, q \in ServerProcs :
    (BothCreated(p, q) /\ ~Overlapped(p, q)) => task[p].id # task[q].id


\* The host file of the host with this ip is the render of the host as the
\* record of e holds it.
HostFileCurrent(e, ip) ==
  /\ <<e, ip>> \in DOMAIN hostFile
  /\ \E i \in 1..Len(detail[e].hosts) :
       detail[e].hosts[i].ip = ip /\ hostFile[<<e, ip>>] = renderHost(detail[e].hosts[i])

\* C34: after a successful mutating call the report of the engagement is
\* the render of its persisted record; after a successful discoverHost or
\* updateHost the file of the host of the call, and after a successful
\* closeEngagement the file of every host of the record, is the render of
\* the host as persisted.
C34_ReportsCurrent ==
  (last.ok /\ last.op \in PersistingOps) =>
    /\ last.eng \in DOMAIN report
    /\ report[last.eng] = renderFindings(detail[last.eng])
    /\ last.op = "discoverHost" => HostFileCurrent(last.eng, last.ip)
    /\ last.op = "updateHost" => HostFileCurrent(last.eng, last.params.ip)
    /\ last.op = "closeEngagement" =>
         \A i \in 1..Len(detail[last.eng].hosts) :
           HostFileCurrent(last.eng, detail[last.eng].hosts[i].ip)

\* A section of a host was updated after a call that had been cut short
\* before its render, and the report and the host file are current.
C34_Witness ==
  /\ last.ok /\ last.op = "updateHost" /\ faults > 0
  /\ report[last.eng] = renderFindings(detail[last.eng])
  /\ HostFileCurrent(last.eng, last.params.ip)


\* The collection a tool adds to, and the prefix of the ids it assigns.
CollectionOf(op, meta) ==
  CASE op = "addFinding" -> meta.findings
    [] op = "addCredential" -> meta.credentials
    [] op = "addTodo" -> meta.todos
    [] op = "logCommand" -> meta.command_log

PrefixOf(op) ==
  CASE op = "addFinding" -> <<"F", "-">>
    [] op = "addCredential" -> <<"C", "-">>
    [] op = "addTodo" -> <<"T", "-">>
    [] op = "logCommand" -> <<"C", "M", "D", "-">>

IdOps == {"addFinding", "addCredential", "addTodo", "logCommand"}

\* The ids of the collection are the prefix followed by the numbers of ns,
\* written with three digits.
NumberedBy(coll, prefix, ns) ==
  { coll[i].id : i \in 1..Len(coll) } = { prefix \o PadStart(ToDigits(n), 3, "0") : n \in ns }

\* The ids of every collection of every record are pairwise distinct.
IdsDistinct ==
  \A e \in DOMAIN detail : \A op \in IdOps :
    \A i, j \in 1..Len(CollectionOf(op, detail[e])) :
      CollectionOf(op, detail[e])[i].id = CollectionOf(op, detail[e])[j].id => i = j

\* C35: a call of addCredential, addTodo or logCommand that writes the
\* record appends one entry to its own collection, with the prefix of the
\* collection and the number that follows the largest number present (1 for
\* an empty collection), and leaves the other three collections, and so
\* their next ids, as they were; an addFinding leaves the collections of
\* credentials, todos and commands as they were; ids in a collection never
\* repeat.
C35_IdsPerCollection ==
  /\ []IdsDistinct
  /\ [][ (clock' # clock /\ last'.op \in IdOps /\ detail' # detail) =>
           LET e == last'.eng
               old == CollectionOf(last'.op, detail[e])
               new == CollectionOf(last'.op, detail'[e])
           IN  /\ Len(new) = Len(old) + 1
               /\ \A i \in 1..Len(old) : new[i] = old[i]
               /\ last'.op # "addFinding" =>
                    /\ new[Len(new)].id = last'.id
                    /\ \E n \in 1..(Len(old) + 1) :
                         /\ new[Len(new)].id =
                              PrefixOf(last'.op) \o PadStart(ToDigits(n), 3, "0")
                         /\ NumberedBy(old, PrefixOf(last'.op), 1..(n - 1))
               /\ \A op \in IdOps \ {last'.op} :
                    /\ CollectionOf(op, detail'[e]) = CollectionOf(op, detail[e])
               /\ nextFindingId(detail'[e].findings) = nextFindingId(detail[e].findings)
                    \/ last'.op = "addFinding"
               /\ nextCredId(detail'[e].credentials) = nextCredId(detail[e].credentials)
                    \/ last'.op = "addCredential"
               /\ nextTodoId(detail'[e].todos) = nextTodoId(detail[e].todos)
                    \/ last'.op = "addTodo"
               /\ nextCmdId(detail'[e].command_log) = nextCmdId(detail[e].command_log)
                    \/ last'.op = "logCommand" ]_vars

\* The record holds a finding, and a second credential, a second todo or a
\* second command has just been given the number 2.
C35_Witness ==
  /\ last.ok /\ last.op \in {"addCredential", "addTodo", "logCommand"}
  /\ last.id = PrefixOf(last.op) \o <<"0", "0", "2">>
  /\ Len(detail[last.eng].findings) = 1
  /\ Len(CollectionOf(last.op, detail[last.eng])) = 2


\* The slug in the id of a first creation: what follows the date and its
\* hyphen.
SlugOf(id) == SubSeq(id, 3, Len(id))

\* Lowercase letters, digits and single hyphens, at most 40 characters.
SlugShape(slug) ==
  /\ Len(slug) <= 40
  /\ \A i \in 1..Len(slug) : slug[i] \in {"a", "b", "c", "-"} \cup DigitSet
  /\ \A i \in 1..(Len(slug) - 1) : ~(slug[i] = "-" /\ slug[i + 1] = "-")

\* C36: the slug in the id of a created engagement has at most 40
\* characters, all lowercase letters, digits or single hyphens, and has no
\* hyphen at its start or at its end.
C36_SlugWellFormed ==
  \A e \in DOMAIN detail :
    /\ SlugShape(SlugOf(e))
    /\ SlugOf(e) # <<>> => SlugOf(e)[1] # "-" /\ SlugOf(e)[Len(SlugOf(e))] # "-"

\* What holds of every slug: the shape and the start; and the end of a slug
\* shorter than 40 characters, which was not cut.
C36_SlugWellFormedUncut ==
  \A e \in DOMAIN detail :
    /\ SlugShape(SlugOf(e))
    /\ SlugOf(e) # <<>> => SlugOf(e)[1] # "-"
    /\ (SlugOf(e) # <<>> /\ Len(SlugOf(e)) < 40) => SlugOf(e)[Len(SlugOf(e))] # "-"


\* C37: in every state, those left by a call that was cut short between two
\* of its file operations included, the active id, when there is one, and
\* the id of every index entry name an engagement whose detail record is on
\* disk.
C37_IdsReferToRecords ==
  /\ active # <<>> => active[1] \in DOMAIN detail
  /\ \A i \in 1..Len(index) : index[i].id \in DOMAIN detail

\* A creation was cut short after its index upsert and before its state
\* write: its record is on disk and in the index, and it is not active.
C37_Witness ==
  /\ last.op = "createEngagement" /\ ~last.ok /\ last.err = "state"
  /\ last.eng \in DOMAIN detail
  /\ \E i \in 1..Len(index) : index[i].id = last.eng
  /\ active # Some(last.eng)


\* The call of this step was refused for its CVSS.
CvssRefused ==
  /\ clock' # clock /\ last'.op \in {"addFinding", "updateFinding"}
  /\ ~last'.ok /\ last'.err = "invalid_cvss"

\* C38: an addFinding or updateFinding that fails with invalid_cvss leaves
\* every detail record, the index and every report as they were, whatever
\* else the call supplied; and a successful addFinding that comes next
\* returns the id that follows the ids returned so far.
C38_InvalidCvssChangesNothing ==
  [][ /\ CvssRefused =>
           /\ detail' = detail /\ index' = index /\ report' = report
           /\ issued' = issued
      /\ (last.err = "invalid_cvss" /\ clock' # clock
            /\ last'.op = "addFinding" /\ last'.ok) =>
           /\ last'.id = <<"F", "-">> \o
                 PadStart(ToDigits(Len(IssuedOf(last'.eng)) + 1), 3, "0")
           /\ Len(detail'[last'.eng].findings) = Len(IssuedOf(last'.eng)) + 1 ]_vars

\* An update with a new severity and the score 10.1 has been refused, and
\* the finding has the severity it had.
C38_Witness ==
  /\ last.op = "updateFinding" /\ last.err = "invalid_cvss"
  /\ last.params.severity = Some("low")
  /\ \E i \in 1..Len(detail[last.eng].findings) :
        /\ detail[last.eng].findings[i].id = last.params.id
        /\ detail[last.eng].findings[i].severity = "high"
        /\ detail[last.eng].findings[i].updated_at < clock - 1
  /\ report[last.eng] = renderFindings(detail[last.eng])


\* The closeEngagement call of p has returned.
ClosedBy(p) == task[p].op = "closeEngagement" /\ task[p].pc = "done"

\* The record of the engagement and its index entry have the closing status.
StaysClosed(id) ==
  /\ detail[id].status = "completed"
  /\ \A i \in 1..Len(index) : index[i].id = id => index[i].status = "completed"

\* C39: once a closeEngagement has returned, the persisted status of the
\* engagement and the status of its index entry are the closing status,
\* whatever the call of the other process, in flight during the close, saves
\* afterwards.
C39_ClosedStaysClosed ==
  [][ \A p \in ServerProcs :
        (ClosedBy(p) /\ StaysClosed(task[p].id)) =>
          /\ detail'[task[p].id].status = "completed"
          /\ \A i \in 1..Len(index') :
               index'[i].id = task[p].id => index'[i].status = "completed" ]_vars

\* The same when no call of the other process overlapped the close.
C39_ClosedStaysClosedAlone ==
  \A p \in ServerProcs :
    (ClosedBy(p) /\ \A q \in ServerProcs \ {p} : ~Overlapped(p, q)) =>
      StaysClosed(task[p].id)

====
